---- MODULE Spec2Model ----
(***************************************************************************)
(* A model of bousse, a two-deck DJ mixing console: the two Turntables     *)
(* (src/src/turntable.rs), the Mixer (src/src/mixer.rs), the Controller    *)
(* that dispatches BoothEvents on them (src/src/controller.rs) and the     *)
(* per-frame process() of the App (src/src/app.rs).                       *)
(*                                                                         *)
(* f64 values are modelled as exact rationals <<n, d>> in lowest terms     *)
(* with d > 0; the rounding of f64 arithmetic is not modelled.             *)
(* Option<T> is modelled as a sequence of length 0 (None) or 1 (Some).     *)
(***************************************************************************)
EXTENDS Integers, Sequences, FiniteSets, TLC

(***************************************************************************)
(* Exact rational arithmetic standing for f64.                             *)
(***************************************************************************)
RECURSIVE GCD(_, _)
GCD(a, b) ==
    IF b = 0 THEN a ELSE GCD(b, a % b)

IAbs(x) ==
    IF x < 0 THEN -x ELSE x

R(n, d) ==
    LET s == IF d < 0 THEN -1 ELSE 1
        g == GCD(IAbs(n), IAbs(d))
    IN  <<(s * n) \div g, (s * d) \div g>>

RInt(n) ==
    <<n, 1>>

RAdd(x, y) ==
    LET g == GCD(x[2], y[2])
    IN  R(x[1] * (y[2] \div g) + y[1] * (x[2] \div g), (x[2] \div g) * y[2])

RNeg(x) ==
    <<-x[1], x[2]>>

RSub(x, y) ==
    RAdd(x, RNeg(y))

RMul(x, y) ==
    LET g1 == GCD(IAbs(x[1]), y[2])
        g2 == GCD(IAbs(y[1]), x[2])
    IN  R((x[1] \div g1) * (y[1] \div g2), (x[2] \div g2) * (y[2] \div g1))

RDiv(x, y) ==
    RMul(x, R(y[2], y[1]))

RLt(x, y) ==
    LET g == GCD(x[2], y[2])
    IN  x[1] * (y[2] \div g) < y[1] * (x[2] \div g)

RLe(x, y) ==
    ~RLt(y, x)

RAbs(x) ==
    <<IAbs(x[1]), x[2]>>

\* f64::clamp(self, min, max)
RClamp(x, lo, hi) ==
    IF RLt(x, lo) THEN lo ELSE IF RLt(hi, x) THEN hi ELSE x

R0 ==
    RInt(0)

R1 ==
    RInt(1)

(***************************************************************************)
(* Option<T>                                                               *)
(***************************************************************************)
None ==
    <<>>

Some(x) ==
    <<x>>

IsSome(o) ==
    Len(o) = 1

Unwrap(o) ==
    o[1]

(***************************************************************************)
(* Bounds of the model and the inputs the events are drawn from.           *)
(***************************************************************************)
\* events and frames in a behaviour of the whole-session specification
MaxEvents == 3

\* events and frames in a behaviour of the deck-simulation specification
MaxSimEvents == 4

\* events and frames the two threads dispatch in a behaviour of SpecThreads
MaxThreadEvents == 3

\* MIDI messages handled in a behaviour of SpecMidi
MaxMidiEvents == 2

Decks ==
    {1, 2}

\* ROOT_DIR, the folder the file navigator starts in
RootDir ==
    "/music"

\* audio files offered to load(): two that decode, one that does not
GoodPaths ==
    {"/music/a.mp3", "/music/sets/b.mp3"}

Paths ==
    GoodPaths \cup {"/music/bad.mp3"}

\* StaticSoundData::duration() of a decoded file, in seconds
DurationOf(path) ==
    IF path = "/music/a.mp3" THEN R(8568, 100) ELSE RInt(200)

\* elapsed seconds handed to process(): 4 ms, 15 ms, 16 ms, 20 ms, 40 ms
Deltas ==
    {R(4, 1000), R(15, 1000), R(16, 1000), R(20, 1000), R(40, 1000)}

\* payloads of ForceApplied
Forces ==
    {RInt(42), RInt(-69)}

\* payloads of PitchOneChanged / PitchTwoChanged
PitchInputs ==
    {RInt(-5), R(95, 100), RInt(2)}

\* payloads of CueMixChanged
CueMixInputs ==
    {RInt(-1), R0, R(1, 4), R(1, 2), R1, RInt(2)}

\* payloads of VolumeOneChanged / VolumeTwoChanged
VolumeInputs ==
    {R0, R(1, 2), R1}

\* payloads of SeekOne / SeekTwo
SeekInputs ==
    {R0, R(1, 2), R1}

\* payloads of EqLowOneChanged .. EqHighTwoChanged, in dB: one inside and one
\* outside the range [-24, +3] of the sliders
EqInputs ==
    {RInt(-24), RInt(12)}

(***************************************************************************)
(* State                                                                   *)
(***************************************************************************)
VARIABLES
    turntable,        \* AppData::turntable_one / turntable_two
    mixer,            \* AppData::mixer: the fields of Mixer the events use
    tracks,           \* the audio engine's master/cue track volumes and routes
    turntable_focus,  \* AppData::turntable_focus
    show_debug_panel, \* AppData::show_debug_panel
    file_navigator,   \* AppData::file_navigator
    crashed,          \* the dispatching thread has panicked
    last,             \* the last call made: event, payload, returned value
    applied,          \* per deck, the forces applied since its last process()
    playing,          \* per deck, the playbacks the engine runs on its track
    threads,          \* the lock on the session and what each thread is doing
    locks,            \* the audio manager's and the tracks' locks, and each load's position
    events            \* number of events and frames so far, where they are bounded

vars ==
    <<turntable, mixer, tracks, turntable_focus, show_debug_panel,
      file_navigator, crashed, last, applied, playing, threads, locks,
      events>>

(***************************************************************************)
(* Turntable (src/src/turntable.rs)                                        *)
(***************************************************************************)
\* StaticSoundData::from_file(path): the decoded source
SoundData(path) ==
    [path |-> path, duration |-> DurationOf(path)]

\* AudioManager::play(sound_data): a fresh handle, playing from 0 at the
\* engine's default playback rate 1.0
NewSound(path) ==
    [data |-> path, stopped |-> FALSE, rate |-> R1, position |-> R0]

\* Turntable::new
NewTurntable ==
    [sound_data       |-> None,
     sound            |-> None,
     pitch_true       |-> R0,
     pitch_target     |-> R1,
     is_playing       |-> FALSE,
     is_scratching    |-> FALSE,
     force            |-> R0,
     currently_loaded |-> None]

\* sound.stop(Tween::default()) on the handle the deck holds, if any
StopSound(t) ==
    IF IsSome(t.sound)
    THEN [t EXCEPT !.sound = Some([Unwrap(@) EXCEPT !.stopped = TRUE])]
    ELSE t

\* 1 if the playback the deck holds a handle of is running in the engine
\* (started and not stopped), 0 if it is stopped or the deck holds none
Running(t) ==
    IF IsSome(t.sound) /\ ~Unwrap(t.sound).stopped THEN 1 ELSE 0

\* Turntable::load without the is_playing guard
LoadUnguarded(t, path, playOk) ==
    IF path \notin GoodPaths
    THEN [res |-> "FromFile", t |-> t, stops |-> 0, starts |-> 0]
    ELSE IF ~playOk
    THEN [res |-> "Play", t |-> t, stops |-> 0, starts |-> 0]
    ELSE [res |-> "Ok",
          t   |-> [StopSound(t) EXCEPT
                     !.sound_data = Some(SoundData(path)),
                     !.sound = Some(NewSound(path)),
                     !.currently_loaded = Some(path)],
          stops |-> Running(t), starts |-> 1]

\* Turntable::load replacing the handle it holds without stopping its
\* playback
LoadWithoutStop(t, path, playOk) ==
    IF t.is_playing
    THEN [res |-> "IsPlaying", t |-> t, stops |-> 0, starts |-> 0]
    ELSE IF path \notin GoodPaths
    THEN [res |-> "FromFile", t |-> t, stops |-> 0, starts |-> 0]
    ELSE LET decoded == [t EXCEPT !.sound_data = Some(SoundData(path))]
         IN  IF ~playOk
             THEN [res |-> "Play", t |-> decoded, stops |-> 0, starts |-> 0]
             ELSE [res |-> "Ok",
                   t   |-> [decoded EXCEPT
                              !.sound = Some(NewSound(path)),
                              !.currently_loaded = Some(path)],
                   stops |-> 0, starts |-> 1]

\* Turntable::load: the returned value (res), the deck afterwards (t) and
\* what the call did to the engine: the number of running playbacks it
\* stopped (stops) and started (starts). from_file succeeds on the paths of
\* GoodPaths, playOk tells whether the engine accepts the new playback.
Load(t, path, playOk) ==
    IF t.is_playing
    THEN [res |-> "IsPlaying", t |-> t, stops |-> 0, starts |-> 0]
    ELSE IF path \notin GoodPaths
    THEN [res |-> "FromFile", t |-> t, stops |-> 0, starts |-> 0]
    ELSE LET decoded == [t EXCEPT !.sound_data = Some(SoundData(path))]
             stopped == StopSound(decoded)
         IN  IF ~playOk
             THEN [res |-> "Play", t |-> stopped,
                   stops |-> Running(decoded) - Running(stopped), starts |-> 0]
             ELSE [res |-> "Ok",
                   t   |-> [stopped EXCEPT
                              !.sound = Some(NewSound(path)),
                              !.currently_loaded = Some(path)],
                   stops |-> Running(decoded) - Running(stopped), starts |-> 1]

\* Turntable::currently_loaded
CurrentlyLoaded(t) ==
    t.currently_loaded

\* Turntable::pitch
Pitch(t) ==
    t.pitch_target

\* Turntable::position
Position(t) ==
    IF IsSome(t.sound) THEN Some(Unwrap(t.sound).position) ELSE None

\* Turntable::duration
Duration(t) ==
    IF IsSome(t.sound_data) THEN Some(Unwrap(t.sound_data).duration) ELSE None

\* Turntable::toggle_start_stop doing nothing on a deck without a source
ToggleStartStopIfLoaded(t) ==
    IF IsSome(t.sound_data) THEN [t EXCEPT !.is_playing = ~@] ELSE t

\* Turntable::toggle_start_stop starting the deck, never stopping it
ToggleStartStopStartsOnly(t) ==
    [t EXCEPT !.is_playing = TRUE]

\* Turntable::toggle_start_stop
ToggleStartStop(t) ==
    [t EXCEPT !.is_playing = ~@]

\* Turntable::set_pitch storing the pitch it is given
SetPitchUnclamped(t, pitch) ==
    [t EXCEPT !.pitch_target = pitch]

\* Turntable::set_pitch applying the new pitch at once to the vinyl and to
\* the playback
SetPitchImmediate(t, pitch) ==
    LET target == RClamp(pitch, R(92, 100), R(108, 100))
        stored == [t EXCEPT !.pitch_target = target, !.pitch_true = target]
    IN  IF IsSome(stored.sound)
        THEN [stored EXCEPT !.sound = Some([Unwrap(@) EXCEPT !.rate = target])]
        ELSE stored

\* Turntable::set_pitch
SetPitch(t, pitch) ==
    [t EXCEPT !.pitch_target = RClamp(pitch, R(92, 100), R(108, 100))]

\* Turntable::start_scratching
StartScratching(t) ==
    [t EXCEPT !.is_scratching = TRUE]

\* Turntable::end_scratching flipping is_scratching
EndScratchingToggling(t) ==
    [t EXCEPT !.is_scratching = ~@]

\* Turntable::end_scratching
EndScratching(t) ==
    [t EXCEPT !.is_scratching = FALSE]

\* Turntable::apply_force replacing the pending force by the new one
ApplyForceOverwrite(t, force) ==
    [t EXCEPT !.force = force]

\* Turntable::apply_force
ApplyForce(t, force) ==
    [t EXCEPT !.force = RAdd(@, force)]

\* Turntable::seek looking for the playback before the duration
SeekSoundFirst(t, percent) ==
    IF ~IsSome(t.sound)
    THEN [res |-> "EmptySound", t |-> t]
    ELSE IF ~IsSome(Duration(t))
    THEN [res |-> "EmptyDuration", t |-> t]
    ELSE [res |-> "Ok",
          t   |-> [t EXCEPT !.sound = Some([Unwrap(@) EXCEPT
                      !.position = RMul(percent, Unwrap(Duration(t)))])]]

\* Turntable::seek: the returned value and the deck afterwards
Seek(t, percent) ==
    IF ~IsSome(Duration(t))
    THEN [res |-> "EmptyDuration", t |-> t]
    ELSE IF ~IsSome(t.sound)
    THEN [res |-> "EmptySound", t |-> t]
    ELSE [res |-> "Ok",
          t   |-> [t EXCEPT !.sound = Some([Unwrap(@) EXCEPT
                      !.position = RMul(percent, Unwrap(Duration(t)))])]]

\* utils::lerp
Lerp(from, to, weight) ==
    RAdd(from, RMul(RSub(to, from), weight))

\* the force process() works with: self.force * 0.02 / delta
NormalizedForce(t, delta) ==
    RDiv(RMul(t.force, R(2, 100)), delta)

\* pitch_per_state with the transport taking priority over scratching
PitchPerStateTransportFirst(t, delta) ==
    LET force == NormalizedForce(t, delta)
    IN  IF t.is_playing
        THEN RAdd(t.pitch_target, RMul(R(1, 100), force))
        ELSE IF t.is_scratching
        THEN RMul(R(1, 10), force)
        ELSE RAdd(R0, RMul(R(1, 100), force))

\* pitch_per_state in process(): the pitch the tick smooths toward
PitchPerState(t, delta) ==
    LET force == NormalizedForce(t, delta)
    IN  IF t.is_scratching
        THEN RMul(R(1, 10), force)
        ELSE IF t.is_playing
        THEN RAdd(t.pitch_target, RMul(R(1, 100), force))
        ELSE RAdd(R0, RMul(R(1, 100), force))

\* the weight of process() clamped to [0, 1]
SmoothingWeightClamped(delta) ==
    RClamp(RDiv(RMul(R(8, 10), R(2, 100)), delta), R0, R1)

\* the weight process() hands to lerp: 0.8 * 0.02 / delta
SmoothingWeight(delta) ==
    RDiv(RMul(R(8, 10), R(2, 100)), delta)

\* impl Processable for Turntable: process(delta)
Process(t, delta) ==
    LET pitch == Lerp(t.pitch_true, PitchPerState(t, delta), SmoothingWeight(delta))
        rated == [t EXCEPT !.pitch_true = pitch]
        set   == IF IsSome(rated.sound)
                 THEN [rated EXCEPT !.sound = Some([Unwrap(@) EXCEPT !.rate = pitch])]
                 ELSE rated
    IN  [set EXCEPT !.force = R0]

(***************************************************************************)
(* Mixer (src/src/mixer.rs). A mixer value m pairs the fields of the       *)
(* struct (m.mixer) with what it has applied to the engine's tracks        *)
(* (m.tracks): the master and cue track volumes and, per channel, the      *)
(* weights of its routes to the master and to the cue track.               *)
(***************************************************************************)
\* Mixer::cue_crossfade without the clamp
cue_crossfade_unclamped(norm_value) ==
    <<RSub(R1, norm_value), norm_value>>

\* Mixer::cue_crossfade
cue_crossfade(norm_value) ==
    LET clamped == RClamp(norm_value, R0, R1)
    IN  <<RSub(R1, clamped), clamped>>

\* Mixer::new
NewMixer ==
    [mixer  |-> [cue_mix_value |-> R(1, 2),
                 cue_enabled   |-> [d \in Decks |-> FALSE],
                 ch_volume     |-> [d \in Decks |-> R0],
                 eq_low_gain   |-> [d \in Decks |-> R0],
                 eq_high_gain  |-> [d \in Decks |-> R0]],
     tracks |-> [master_volume |-> R1,
                 cue_volume    |-> R1,
                 route_master  |-> [d \in Decks |-> R0],
                 route_cue     |-> [d \in Decks |-> R0],
                 filter_low    |-> [d \in Decks |-> R0],
                 filter_high   |-> [d \in Decks |-> R0]]]

\* Mixer::get_cue_mix_value
GetCueMixValue(m) ==
    m.mixer.cue_mix_value

\* Mixer::set_cue_mix_value applying the two volumes to the wrong tracks
SetCueMixValueSwapped(m, value) ==
    LET stored == [m EXCEPT !.mixer.cue_mix_value = value]
        faded  == cue_crossfade(stored.mixer.cue_mix_value)
    IN  [stored EXCEPT !.tracks.cue_volume = faded[2],
                       !.tracks.master_volume = faded[1]]

\* Mixer::set_cue_mix_value
SetCueMixValue(m, value) ==
    LET stored == [m EXCEPT !.mixer.cue_mix_value = value]
        faded  == cue_crossfade(stored.mixer.cue_mix_value)
    IN  [stored EXCEPT !.tracks.cue_volume = faded[1],
                       !.tracks.master_volume = faded[2]]

\* Mixer::is_cue_one_enabled / Mixer::is_cue_two_enabled
IsCueEnabled(m, d) ==
    m.mixer.cue_enabled[d]

\* Mixer::set_cue_one / Mixer::set_cue_two storing the flag without
\* re-applying the route to the cue track
SetCueUnrouted(m, d, enabled) ==
    [m EXCEPT !.mixer.cue_enabled[d] = enabled]

\* Mixer::set_cue_one / Mixer::set_cue_two
SetCue(m, d, enabled) ==
    LET stored == [m EXCEPT !.mixer.cue_enabled[d] = enabled]
    IN  [stored EXCEPT !.tracks.route_cue[d] =
            IF stored.mixer.cue_enabled[d] THEN R1 ELSE R0]

\* Mixer::get_ch_one_volume / Mixer::get_ch_two_volume
GetChVolume(m, d) ==
    m.mixer.ch_volume[d]

\* Mixer::set_ch_one_volume / Mixer::set_ch_two_volume storing the volume
\* without re-applying the route to the master track
SetChVolumeUnrouted(m, d, volume) ==
    [m EXCEPT !.mixer.ch_volume[d] = volume]

\* Mixer::set_ch_one_volume / Mixer::set_ch_two_volume
SetChVolume(m, d, volume) ==
    LET stored == [m EXCEPT !.mixer.ch_volume[d] = volume]
    IN  [stored EXCEPT !.tracks.route_master[d] = stored.mixer.ch_volume[d]]

\* Mixer::get_eq_low_one_gain / get_eq_low_two_gain
GetEqLowGain(m, d) ==
    m.mixer.eq_low_gain[d]

\* Mixer::set_eq_low_one_gain / set_eq_low_two_gain: stores the gain and
\* applies it to the channel's low-shelf filter, unclamped
SetEqLowGain(m, d, gain) ==
    LET stored == [m EXCEPT !.mixer.eq_low_gain[d] = gain]
    IN  [stored EXCEPT !.tracks.filter_low[d] = stored.mixer.eq_low_gain[d]]

\* Mixer::get_eq_high_one_gain / get_eq_high_two_gain
GetEqHighGain(m, d) ==
    m.mixer.eq_high_gain[d]

\* Mixer::set_eq_high_one_gain / set_eq_high_two_gain: stores the gain and
\* applies it to the channel's high-shelf filter, unclamped
SetEqHighGain(m, d, gain) ==
    LET stored == [m EXCEPT !.mixer.eq_high_gain[d] = gain]
    IN  [stored EXCEPT !.tracks.filter_high[d] = stored.mixer.eq_high_gain[d]]

(***************************************************************************)
(* FileNavigator (src/src/file_navigator.rs) over a fixed directory tree.  *)
(***************************************************************************)
\* what fs::read_dir and fs::metadata report for a directory, in the order
\* read_dir happens to yield it
ReadDir(cwd) ==
    IF cwd = "/music"
    THEN <<[name |-> "sets", is_dir |-> TRUE],
           [name |-> "notes.txt", is_dir |-> FALSE],
           [name |-> "bad.mp3", is_dir |-> FALSE],
           [name |-> "a.mp3", is_dir |-> FALSE],
           [name |-> "empty", is_dir |-> TRUE]>>
    ELSE IF cwd = "/music/sets"
    THEN <<[name |-> "b.mp3", is_dir |-> FALSE]>>
    ELSE <<>>

\* the extension Path::extension() finds in a file name, lower-cased
Extension(filename) ==
    IF filename \in {"a.mp3", "bad.mp3", "b.mp3"} THEN "mp3"
    ELSE IF filename = "notes.txt" THEN "txt"
    ELSE ""

\* FileNavigator::is_supported_audio_filename
IsSupportedAudioFilename(filename) ==
    Extension(filename) \in {"wav", "aif", "aiff", "flac", "mp3"}

\* the rank of a name in the order Vec<String>::sort() puts the names in
SortRank(name) ==
    CASE name = "a.mp3"     -> 1
      [] name = "b.mp3"     -> 2
      [] name = "bad.mp3"   -> 3
      [] name = "empty"     -> 4
      [] name = "notes.txt" -> 5
      [] name = "sets"      -> 6

\* Vec<String>::sort() of a list of distinct names
RECURSIVE SortNames(_)
SortNames(names) ==
    IF names = {}
    THEN <<>>
    ELSE LET least == CHOOSE n \in names : \A o \in names : SortRank(n) <= SortRank(o)
         IN  <<least>> \o SortNames(names \ {least})

\* FileNavigator::cwd
Cwd(nav) ==
    LET Join[i \in 1..Len(nav.cwd_stack)] ==
            IF i = 1 THEN nav.cwd_stack[1] ELSE Join[i - 1] \o "/" \o nav.cwd_stack[i]
    IN  Join[Len(nav.cwd_stack)]

\* FileNavigator::update_entries
UpdateEntries(nav) ==
    LET listing == ReadDir(Cwd(nav))
        kept    == {listing[i].name : i \in
                      {j \in 1..Len(listing) :
                          \/ listing[j].is_dir
                          \/ IsSupportedAudioFilename(listing[j].name)}}
    IN  [nav EXCEPT !.entries = SortNames(kept)]

\* FileNavigator::new
NewFileNavigator ==
    UpdateEntries([cwd_stack |-> <<RootDir>>, entries |-> <<>>, cursor_stack |-> <<>>])

\* FileNavigator::cursor
Cursor(nav) ==
    IF nav.cursor_stack = <<>> THEN None ELSE Some(nav.cursor_stack[Len(nav.cursor_stack)])

\* FileNavigator::set_cursor
SetCursor(nav, new_cursor) ==
    IF nav.cursor_stack = <<>>
    THEN nav
    ELSE [nav EXCEPT !.cursor_stack[Len(nav.cursor_stack)] = new_cursor]

\* FileNavigator::go_up stopping at the first entry
GoUpSaturating(nav) ==
    IF IsSome(Cursor(nav)) /\ Len(nav.entries) > 0
    THEN SetCursor(nav, IF Unwrap(Cursor(nav)) = 0 THEN 0
                        ELSE Unwrap(Cursor(nav)) - 1)
    ELSE nav

\* FileNavigator::go_up
GoUp(nav) ==
    IF IsSome(Cursor(nav)) /\ Len(nav.entries) > 0
    THEN SetCursor(nav, (Unwrap(Cursor(nav)) - 1) % Len(nav.entries))
    ELSE nav

\* FileNavigator::go_down
GoDown(nav) ==
    IF IsSome(Cursor(nav)) /\ Len(nav.entries) > 0
    THEN SetCursor(nav, (Unwrap(Cursor(nav)) + 1) % Len(nav.entries))
    ELSE nav

\* FileNavigator::select: the selection returned (kind, path) and the
\* navigator afterwards
Select(nav) ==
    IF ~IsSome(Cursor(nav))
    THEN [kind |-> "None", path |-> "",
          nav  |-> IF Len(nav.entries) > 0
                   THEN [nav EXCEPT !.cursor_stack = Append(@, 0)]
                   ELSE nav]
    ELSE IF Unwrap(Cursor(nav)) + 1 > Len(nav.entries)
    THEN [kind |-> "None", path |-> "", nav |-> nav]
    ELSE LET entry     == nav.entries[Unwrap(Cursor(nav)) + 1]
             file_path == Cwd(nav) \o "/" \o entry
         IN  IF IsSupportedAudioFilename(entry)
             THEN [kind |-> "File", path |-> file_path, nav |-> nav]
             ELSE [kind |-> "Directory", path |-> file_path,
                   nav  |-> UpdateEntries([nav EXCEPT
                               !.cwd_stack = Append(@, entry),
                               !.cursor_stack = Append(@, 0)])]

\* FileNavigator::go_back dropping the cursor when it refuses to leave the
\* root
GoBackDroppingCursor(nav) ==
    IF Len(nav.cwd_stack) = 1
    THEN [res |-> "PastRootAttempt", nav |-> [nav EXCEPT !.cursor_stack = <<>>]]
    ELSE [res |-> "Ok",
          nav |-> UpdateEntries([nav EXCEPT
                     !.cwd_stack = SubSeq(@, 1, Len(@) - 1),
                     !.cursor_stack = SubSeq(@, 1, Len(@) - 1)])]

\* FileNavigator::go_back without the update_entries() that ends it
GoBackWithoutUpdate(nav) ==
    IF Len(nav.cwd_stack) = 1
    THEN [res |-> "PastRootAttempt", nav |-> nav]
    ELSE [res |-> "Ok",
          nav |-> [nav EXCEPT
                     !.cwd_stack = SubSeq(@, 1, Len(@) - 1),
                     !.cursor_stack = SubSeq(@, 1, Len(@) - 1)]]

\* FileNavigator::go_back: the returned value and the navigator afterwards
GoBack(nav) ==
    IF Len(nav.cwd_stack) = 1
    THEN [res |-> "PastRootAttempt", nav |-> nav]
    ELSE [res |-> "Ok",
          nav |-> UpdateEntries([nav EXCEPT
                     !.cwd_stack = SubSeq(@, 1, Len(@) - 1),
                     !.cursor_stack = SubSeq(@, 1, Len(@) - 1)])]

\* FileNavigator::selected: the entry under the cursor; indexing entries
\* past their end panics
Selected(nav) ==
    IF ~IsSome(Cursor(nav))
    THEN [res |-> "None", entry |-> ""]
    ELSE IF Unwrap(Cursor(nav)) + 1 > Len(nav.entries)
    THEN [res |-> "panic", entry |-> ""]
    ELSE [res |-> "Some", entry |-> nav.entries[Unwrap(Cursor(nav)) + 1]]

(***************************************************************************)
(* The session: App::new, Controller::handle_event, App::process           *)
(***************************************************************************)
\* the mixer value made of the two variables that hold it
TheMixer ==
    [mixer |-> mixer, tracks |-> tracks]

\* the record kept of the last call: the event, its f64 payload, its path
\* payload, the value the call it made returned and the number of calls of
\* handle_event nested in it
Call(ev, arg, path, res) ==
    [ev |-> ev, arg |-> arg, path |-> path, res |-> res, nested |-> 0]

\* the name of a deck-addressed event
EventName(prefix, d, suffix) ==
    prefix \o (IF d = 1 THEN "One" ELSE "Two") \o suffix

\* the two threads that reach the session: the event loop and the MIDI
\* input callback
Threads ==
    {"primary", "input"}

\* no thread holds the lock, none is dispatching anything
NewThreads ==
    [lock   |-> None,
     pc     |-> [t \in Threads |-> "out"],
     cur    |-> [t \in Threads |-> <<>>],
     before |-> [t \in Threads |-> <<>>],
     issued |-> [t \in Threads |-> <<>>],
     log    |-> <<>>]

\* no lock is held, no load is running
NewLocks ==
    [manager |-> None,
     track   |-> [d \in Decks |-> None],
     pc      |-> [d \in Decks |-> "idle"],
     arg     |-> [d \in Decks |-> <<>>],
     bus     |-> None]

\* App::new
Init ==
    /\ turntable = [d \in Decks |-> NewTurntable]
    /\ mixer = NewMixer.mixer
    /\ tracks = NewMixer.tracks
    /\ turntable_focus = 1
    /\ show_debug_panel = TRUE
    /\ file_navigator = NewFileNavigator
    /\ crashed = FALSE
    /\ last = Call("new", R0, "", "")
    /\ applied = [d \in Decks |-> <<>>]
    /\ playing = [d \in Decks |-> 0]
    /\ threads = NewThreads
    /\ locks = NewLocks
    /\ events = 0

\* BoothEvent::FocusChanged(focus) switching to the deck that is not focused,
\* whatever its payload
FocusChangedToggling(focus) ==
    /\ ~crashed
    /\ turntable_focus' = (IF turntable_focus = 1 THEN 2 ELSE 1)
    /\ last' = Call(EventName("FocusChanged", focus, ""), R0, "", "")
    /\ UNCHANGED <<turntable, mixer, tracks, show_debug_panel, file_navigator,
                   crashed, applied, playing>>

\* BoothEvent::FocusChanged(focus)
FocusChanged(focus) ==
    /\ ~crashed
    /\ turntable_focus' = focus
    /\ last' = Call(EventName("FocusChanged", focus, ""), R0, "", "")
    /\ UNCHANGED <<turntable, mixer, tracks, show_debug_panel, file_navigator,
                   crashed, applied, playing>>

\* BoothEvent::ToggleDebug
ToggleDebug ==
    /\ ~crashed
    /\ show_debug_panel' = ~show_debug_panel
    /\ last' = Call("ToggleDebug", R0, "", "")
    /\ UNCHANGED <<turntable, mixer, tracks, turntable_focus, file_navigator,
                   crashed, applied, playing>>

\* BoothEvent::CueMixChanged(mix)
CueMixChanged(mix) ==
    /\ ~crashed
    /\ LET m == SetCueMixValue(TheMixer, mix)
       IN  mixer' = m.mixer /\ tracks' = m.tracks
    /\ last' = Call("CueMixChanged", mix, "", "")
    /\ UNCHANGED <<turntable, turntable_focus, show_debug_panel, file_navigator,
                   crashed, applied, playing>>

\* the TrackLoad arm: load(path).unwrap() on the focused deck. An Err makes
\* unwrap() panic after load has returned, with whatever load changed.
HandleTrackLoad(path, playOk) ==
    LET r == Load(turntable[turntable_focus], path, playOk)
    IN  /\ turntable' = [turntable EXCEPT ![turntable_focus] = r.t]
        /\ playing' = [playing EXCEPT ![turntable_focus] = @ - r.stops + r.starts]
        /\ crashed' = (r.res # "Ok")

\* BoothEvent::TrackLoad(path)
TrackLoad(path, playOk) ==
    /\ ~crashed
    /\ HandleTrackLoad(path, playOk)
    /\ last' = Call("TrackLoad", R0, path,
                    Load(turntable[turntable_focus], path, playOk).res)
    /\ UNCHANGED <<mixer, tracks, turntable_focus, show_debug_panel,
                   file_navigator, applied>>

\* BoothEvent::ToggleStartStopOne / ToggleStartStopTwo
ToggleStartStopEvent(d) ==
    /\ ~crashed
    /\ turntable' = [turntable EXCEPT ![d] = ToggleStartStop(@)]
    /\ last' = Call(EventName("ToggleStartStop", d, ""), R0, "", "")
    /\ UNCHANGED <<mixer, tracks, turntable_focus, show_debug_panel,
                   file_navigator, crashed, applied, playing>>

\* BoothEvent::ToggleCueOne / ToggleCueTwo
ToggleCue(d) ==
    /\ ~crashed
    /\ LET cue == IsCueEnabled(TheMixer, d)
           m   == SetCue(TheMixer, d, ~cue)
       IN  mixer' = m.mixer /\ tracks' = m.tracks
    /\ last' = Call(EventName("ToggleCue", d, ""), R0, "", "")
    /\ UNCHANGED <<turntable, turntable_focus, show_debug_panel, file_navigator,
                   crashed, applied, playing>>

\* BoothEvent::VolumeOneChanged(volume) / VolumeTwoChanged(volume)
VolumeChanged(d, volume) ==
    /\ ~crashed
    /\ LET m == SetChVolume(TheMixer, d, volume)
       IN  mixer' = m.mixer /\ tracks' = m.tracks
    /\ last' = Call(EventName("Volume", d, "Changed"), volume, "", "")
    /\ UNCHANGED <<turntable, turntable_focus, show_debug_panel, file_navigator,
                   crashed, applied, playing>>

\* BoothEvent::PitchOneChanged(pitch) / PitchTwoChanged(pitch) setting the
\* pitch of the focused deck
PitchChangedOnFocus(d, pitch) ==
    /\ ~crashed
    /\ turntable' = [turntable EXCEPT ![turntable_focus] = SetPitch(@, pitch)]
    /\ last' = Call(EventName("Pitch", d, "Changed"), pitch, "", "")
    /\ UNCHANGED <<mixer, tracks, turntable_focus, show_debug_panel,
                   file_navigator, crashed, applied, playing>>

\* BoothEvent::PitchOneChanged(pitch) / PitchTwoChanged(pitch)
PitchChanged(d, pitch) ==
    /\ ~crashed
    /\ turntable' = [turntable EXCEPT ![d] = SetPitch(@, pitch)]
    /\ last' = Call(EventName("Pitch", d, "Changed"), pitch, "", "")
    /\ UNCHANGED <<mixer, tracks, turntable_focus, show_debug_panel,
                   file_navigator, crashed, applied, playing>>

\* BoothEvent::EqLowOneChanged(gain) / EqLowTwoChanged(gain) setting the
\* high band of the channel
EqLowChangedOnHighBand(d, gain) ==
    /\ ~crashed
    /\ LET m == SetEqHighGain(TheMixer, d, gain)
       IN  mixer' = m.mixer /\ tracks' = m.tracks
    /\ last' = Call(EventName("EqLow", d, "Changed"), gain, "", "")
    /\ UNCHANGED <<turntable, turntable_focus, show_debug_panel, file_navigator,
                   crashed, applied, playing>>

\* BoothEvent::EqLowOneChanged(gain) / EqLowTwoChanged(gain)
EqLowChanged(d, gain) ==
    /\ ~crashed
    /\ LET m == SetEqLowGain(TheMixer, d, gain)
       IN  mixer' = m.mixer /\ tracks' = m.tracks
    /\ last' = Call(EventName("EqLow", d, "Changed"), gain, "", "")
    /\ UNCHANGED <<turntable, turntable_focus, show_debug_panel, file_navigator,
                   crashed, applied, playing>>

\* BoothEvent::EqHighOneChanged(gain) / EqHighTwoChanged(gain)
EqHighChanged(d, gain) ==
    /\ ~crashed
    /\ LET m == SetEqHighGain(TheMixer, d, gain)
       IN  mixer' = m.mixer /\ tracks' = m.tracks
    /\ last' = Call(EventName("EqHigh", d, "Changed"), gain, "", "")
    /\ UNCHANGED <<turntable, turntable_focus, show_debug_panel, file_navigator,
                   crashed, applied, playing>>

\* BoothEvent::ScratchBegin
ScratchBegin ==
    /\ ~crashed
    /\ turntable' = [turntable EXCEPT ![turntable_focus] = StartScratching(@)]
    /\ last' = Call("ScratchBegin", R0, "", "")
    /\ UNCHANGED <<mixer, tracks, turntable_focus, show_debug_panel,
                   file_navigator, crashed, applied, playing>>

\* BoothEvent::ScratchEnd
ScratchEnd ==
    /\ ~crashed
    /\ turntable' = [turntable EXCEPT ![turntable_focus] = EndScratching(@)]
    /\ last' = Call("ScratchEnd", R0, "", "")
    /\ UNCHANGED <<mixer, tracks, turntable_focus, show_debug_panel,
                   file_navigator, crashed, applied, playing>>

\* BoothEvent::ForceApplied(force) applying the force to deck One, whatever
\* the focus
ForceAppliedToDeckOne(force) ==
    /\ ~crashed
    /\ turntable' = [turntable EXCEPT ![1] = ApplyForce(@, force)]
    /\ applied' = [applied EXCEPT ![1] = Append(@, force)]
    /\ last' = Call("ForceApplied", force, "", "")
    /\ UNCHANGED <<mixer, tracks, turntable_focus, show_debug_panel,
                   file_navigator, crashed, playing>>

\* BoothEvent::ForceApplied(force)
ForceApplied(force) ==
    /\ ~crashed
    /\ turntable' = [turntable EXCEPT ![turntable_focus] = ApplyForce(@, force)]
    /\ applied' = [applied EXCEPT ![turntable_focus] = Append(@, force)]
    /\ last' = Call("ForceApplied", force, "", "")
    /\ UNCHANGED <<mixer, tracks, turntable_focus, show_debug_panel,
                   file_navigator, crashed, playing>>

\* BoothEvent::SeekOne(percent) / SeekTwo(percent): an Err is logged
SeekEvent(d, percent) ==
    /\ ~crashed
    /\ turntable' = [turntable EXCEPT ![d] = Seek(@, percent).t]
    /\ last' = Call(EventName("Seek", d, ""), percent, "",
                    Seek(turntable[d], percent).res)
    /\ UNCHANGED <<mixer, tracks, turntable_focus, show_debug_panel,
                   file_navigator, crashed, applied, playing>>

\* BoothEvent::FileNavigatorUp
FileNavigatorUp ==
    /\ ~crashed
    /\ file_navigator' = GoUp(file_navigator)
    /\ last' = Call("FileNavigatorUp", R0, "", "")
    /\ UNCHANGED <<turntable, mixer, tracks, turntable_focus, show_debug_panel,
                   crashed, applied, playing>>

\* BoothEvent::FileNavigatorDown
FileNavigatorDown ==
    /\ ~crashed
    /\ file_navigator' = GoDown(file_navigator)
    /\ last' = Call("FileNavigatorDown", R0, "", "")
    /\ UNCHANGED <<turntable, mixer, tracks, turntable_focus, show_debug_panel,
                   crashed, applied, playing>>

\* BoothEvent::FileNavigatorBack: an Err is logged
FileNavigatorBack ==
    /\ ~crashed
    /\ file_navigator' = GoBack(file_navigator).nav
    /\ last' = Call("FileNavigatorBack", R0, "", GoBack(file_navigator).res)
    /\ UNCHANGED <<turntable, mixer, tracks, turntable_focus, show_debug_panel,
                   crashed, applied, playing>>

\* BoothEvent::FileNavigatorSelect re-entering handle_event with TrackLoad
\* for whatever select() returned a path for, a directory included
FileNavigatorSelectLoadsAnyPath(playOk) ==
    /\ ~crashed
    /\ LET sel == Select(file_navigator)
       IN  /\ file_navigator' = sel.nav
           /\ IF sel.kind # "None"
              THEN /\ HandleTrackLoad(sel.path, playOk)
                   /\ last' = [Call("FileNavigatorSelect", R0, sel.path,
                                    Load(turntable[turntable_focus], sel.path, playOk).res)
                                 EXCEPT !.nested = 1]
              ELSE /\ UNCHANGED <<turntable, crashed, playing>>
                   /\ last' = Call("FileNavigatorSelect", R0, sel.path, sel.kind)
    /\ UNCHANGED <<mixer, tracks, turntable_focus, show_debug_panel, applied>>

\* BoothEvent::FileNavigatorSelect: a File selection re-enters handle_event
\* with TrackLoad(file_path)
FileNavigatorSelect(playOk) ==
    /\ ~crashed
    /\ LET sel == Select(file_navigator)
       IN  /\ file_navigator' = sel.nav
           /\ IF sel.kind = "File"
              THEN /\ HandleTrackLoad(sel.path, playOk)
                   /\ last' = [Call("FileNavigatorSelect", R0, sel.path,
                                    Load(turntable[turntable_focus], sel.path, playOk).res)
                                 EXCEPT !.nested = 1]
              ELSE /\ UNCHANGED <<turntable, crashed, playing>>
                   /\ last' = Call("FileNavigatorSelect", R0, sel.path, sel.kind)
    /\ UNCHANGED <<mixer, tracks, turntable_focus, show_debug_panel, applied>>

\* App::process running process(delta) on the focused deck only
TickFocusedDeck(delta) ==
    /\ ~crashed
    /\ turntable' = [turntable EXCEPT ![turntable_focus] = Process(@, delta)]
    /\ applied' = [d \in Decks |-> <<>>]
    /\ last' = Call("process", delta, "", "")
    /\ UNCHANGED <<mixer, tracks, turntable_focus, show_debug_panel,
                   file_navigator, crashed, playing>>

\* impl Processable for App: process(delta) on both decks
Tick(delta) ==
    /\ ~crashed
    /\ turntable' = [d \in Decks |-> Process(turntable[d], delta)]
    /\ applied' = [d \in Decks |-> <<>>]
    /\ last' = Call("process", delta, "", "")
    /\ UNCHANGED <<mixer, tracks, turntable_focus, show_debug_panel,
                   file_navigator, crashed, playing>>

\* the name of a method called on a deck directly
MethodName(d, method) ==
    (IF d = 1 THEN "turntable_one." ELSE "turntable_two.") \o method

\* load(path) called on a deck by a caller that takes the Result and goes
\* on, as the tests of turntable.rs do (let _ = turntable.load(..))
TurntableLoad(d, path, playOk) ==
    /\ ~crashed
    /\ LET r == Load(turntable[d], path, playOk)
       IN  /\ turntable' = [turntable EXCEPT ![d] = r.t]
           /\ playing' = [playing EXCEPT ![d] = @ - r.stops + r.starts]
           /\ last' = Call(MethodName(d, "load"), R0, path, r.res)
    /\ UNCHANGED <<mixer, tracks, turntable_focus, show_debug_panel,
                   file_navigator, crashed, applied>>

(***************************************************************************)
(* Specifications                                                          *)
(***************************************************************************)
\* a step of a specification that bounds its behaviours to MaxEvents steps
Counted ==
    events < MaxEvents /\ events' = events + 1 /\ UNCHANGED <<threads, locks>>

\* a step of a specification that bounds its behaviours to MaxSimEvents steps
SimCounted ==
    events < MaxSimEvents /\ events' = events + 1 /\ UNCHANGED <<threads, locks>>

\* a step of a specification whose state space is finite as it is
Uncounted ==
    UNCHANGED <<events, threads, locks>>

\* the whole session: up to MaxEvents events and frames, in any order, over
\* every arm of handle_event
Next ==
    \/ \E focus \in Decks : Counted /\ FocusChanged(focus)
    \/ Counted /\ ToggleDebug
    \/ \E mix \in CueMixInputs : Counted /\ CueMixChanged(mix)
    \/ \E path \in Paths, playOk \in BOOLEAN : Counted /\ TrackLoad(path, playOk)
    \/ \E d \in Decks : Counted /\ ToggleStartStopEvent(d)
    \/ \E d \in Decks : Counted /\ ToggleCue(d)
    \/ \E d \in Decks, volume \in VolumeInputs : Counted /\ VolumeChanged(d, volume)
    \/ \E d \in Decks, pitch \in PitchInputs : Counted /\ PitchChanged(d, pitch)
    \/ \E d \in Decks, gain \in EqInputs : Counted /\ EqLowChanged(d, gain)
    \/ \E d \in Decks, gain \in EqInputs : Counted /\ EqHighChanged(d, gain)
    \/ Counted /\ ScratchBegin
    \/ Counted /\ ScratchEnd
    \/ \E force \in Forces : Counted /\ ForceApplied(force)
    \/ \E d \in Decks, percent \in SeekInputs : Counted /\ SeekEvent(d, percent)
    \/ Counted /\ FileNavigatorUp
    \/ Counted /\ FileNavigatorDown
    \/ Counted /\ FileNavigatorBack
    \/ \E playOk \in BOOLEAN : Counted /\ FileNavigatorSelect(playOk)
    \/ \E delta \in Deltas : Counted /\ Tick(delta)

Spec ==
    Init /\ [][Next]_vars

\* loading and transport: the events that load, start, stop and seek a deck
NextLoad ==
    \/ \E focus \in Decks : Uncounted /\ FocusChanged(focus)
    \/ \E path \in Paths, playOk \in BOOLEAN : Uncounted /\ TrackLoad(path, playOk)
    \/ \E d \in Decks : Uncounted /\ ToggleStartStopEvent(d)
    \/ \E d \in Decks, percent \in SeekInputs : Uncounted /\ SeekEvent(d, percent)
    \/ Uncounted /\ FileNavigatorUp
    \/ Uncounted /\ FileNavigatorDown
    \/ Uncounted /\ FileNavigatorBack
    \/ \E playOk \in BOOLEAN : Uncounted /\ FileNavigatorSelect(playOk)

SpecLoad ==
    Init /\ [][NextLoad]_vars

\* the deck simulation: up to MaxSimEvents of the events process() reads
\* the effect of and of frames
NextTick ==
    \/ \E focus \in Decks : SimCounted /\ FocusChanged(focus)
    \/ \E d \in Decks : SimCounted /\ ToggleStartStopEvent(d)
    \/ \E d \in Decks, pitch \in PitchInputs : SimCounted /\ PitchChanged(d, pitch)
    \/ SimCounted /\ ScratchBegin
    \/ SimCounted /\ ScratchEnd
    \/ \E force \in Forces : SimCounted /\ ForceApplied(force)
    \/ \E delta \in Deltas : SimCounted /\ Tick(delta)

SpecTick ==
    Init /\ [][NextTick]_vars

\* the bus graph: the events that reach the Mixer
NextMixer ==
    \/ \E mix \in CueMixInputs : Uncounted /\ CueMixChanged(mix)
    \/ \E d \in Decks : Uncounted /\ ToggleCue(d)
    \/ \E d \in Decks, volume \in VolumeInputs : Uncounted /\ VolumeChanged(d, volume)
    \/ \E d \in Decks, gain \in EqInputs : Uncounted /\ EqLowChanged(d, gain)
    \/ \E d \in Decks, gain \in EqInputs : Uncounted /\ EqHighChanged(d, gain)

SpecMixer ==
    Init /\ [][NextMixer]_vars

\* seeking: decks loaded by a caller that survives a failed load, and the
\* Seek events of the dispatcher
NextDeck ==
    \/ \E d \in Decks, path \in Paths, playOk \in BOOLEAN :
          Uncounted /\ TurntableLoad(d, path, playOk)
    \/ \E d \in Decks, percent \in SeekInputs : Uncounted /\ SeekEvent(d, percent)

SpecDeck ==
    Init /\ [][NextDeck]_vars

(***************************************************************************)
(* The two threads and the lock on the session (spec 5). The event loop    *)
(* and the MIDI callback each dispatch one event at a time: a thread       *)
(* takes the lock, runs the handler, mutation by mutation, and gives the   *)
(* lock back.                                                              *)
(***************************************************************************)
\* utils::remap
Remap(value, istart, iend, ostart, oend) ==
    RAdd(ostart, RMul(RSub(oend, ostart),
                      RDiv(RSub(value, istart), RSub(iend, istart))))

\* an event or a frame as a thread dispatches it
ThreadEvent(kind, d, arg) ==
    [kind |-> kind, d |-> d, arg |-> arg]

\* what the event loop dispatches: the sliders of run_ui at 0.5 and 0.95,
\* the start/stop keys and the frame's process(0.02)
PrimaryEvents ==
    {ThreadEvent("Volume", d, R(1, 2)) : d \in Decks}
        \cup {ThreadEvent("Pitch", d, R(95, 100)) : d \in Decks}
        \cup {ThreadEvent("ToggleStartStop", d, R0) : d \in Decks}
        \cup {ThreadEvent("process", 0, R(20, 1000))}

\* what on_midi_event dispatches: a volume fader at 127 and a pitch fader
\* at 0
InputEvents ==
    {ThreadEvent("Volume", d, Remap(RInt(127), R0, RInt(127), R0, R1)) :
        d \in Decks}
        \cup {ThreadEvent("Pitch", d,
                Remap(R0, R0, RInt(127), R(106, 100), R(94, 100))) :
                d \in Decks}

\* the events of a thread
EventsOf(t) ==
    IF t = "primary" THEN PrimaryEvents ELSE InputEvents

\* the name of the call a thread's event makes
ThreadEventName(e) ==
    IF e.kind = "process" THEN "process"
    ELSE IF e.kind = "ToggleStartStop" THEN EventName("ToggleStartStop", e.d, "")
    ELSE EventName(e.kind, e.d, "Changed")

\* the session the lock guards: both decks, the bus graph and the focus
TheSession ==
    [turntable |-> turntable, m |-> TheMixer, turntable_focus |-> turntable_focus]

\* the session is s after the step
SessionBecomes(s) ==
    /\ turntable' = s.turntable
    /\ mixer' = s.m.mixer
    /\ tracks' = s.m.tracks
    /\ turntable_focus' = s.turntable_focus

\* the first statement of set_ch_one_volume / set_ch_two_volume: the store
StoreChVolume(m, d, volume) ==
    [m EXCEPT !.mixer.ch_volume[d] = volume]

\* the second statement of set_ch_one_volume / set_ch_two_volume: set_route
\* to the master track with the stored volume
RouteChVolume(m, d) ==
    [m EXCEPT !.tracks.route_master[d] = m.mixer.ch_volume[d]]

\* the first mutation the handler of e makes on the session s: the store of
\* a volume, process() of deck One; the whole of a one-statement handler
HandlerBegin(s, e) ==
    IF e.kind = "Volume"
    THEN [s EXCEPT !.m = StoreChVolume(@, e.d, e.arg)]
    ELSE IF e.kind = "Pitch"
    THEN [s EXCEPT !.turntable[e.d] = SetPitch(@, e.arg)]
    ELSE IF e.kind = "ToggleStartStop"
    THEN [s EXCEPT !.turntable[e.d] = ToggleStartStop(@)]
    ELSE [s EXCEPT !.turntable[1] = Process(@, e.arg)]

\* the rest of the handler of e: the route of a volume, process() of deck
\* Two
HandlerEnd(s, e) ==
    IF e.kind = "Volume"
    THEN [s EXCEPT !.m = RouteChVolume(@, e.d)]
    ELSE IF e.kind = "process"
    THEN [s EXCEPT !.turntable[2] = Process(@, e.arg)]
    ELSE s

\* thread t has an event to dispatch and calls lock()
ThreadDispatch(t, e) ==
    /\ ~crashed
    /\ events < MaxThreadEvents
    /\ threads.pc[t] = "out"
    /\ threads' = [threads EXCEPT !.pc[t] = "waiting",
                                  !.cur[t] = Some(e),
                                  !.issued[t] = Append(@, e)]
    /\ events' = events + 1
    /\ UNCHANGED <<turntable, mixer, tracks, turntable_focus, show_debug_panel,
                   file_navigator, crashed, last, applied, playing, locks>>

\* lock() returning to t whether or not the other thread holds the lock
ThreadAcquireUnlocked(t) ==
    /\ threads.pc[t] = "waiting"
    /\ threads' = [threads EXCEPT !.lock = Some(t),
                                  !.pc[t] = "in",
                                  !.before[t] = Some(TheSession)]
    /\ UNCHANGED <<turntable, mixer, tracks, turntable_focus, show_debug_panel,
                   file_navigator, crashed, last, applied, playing, events, locks>>

\* lock() returns to t: nobody holds the lock, t holds it from now on
ThreadAcquire(t) ==
    /\ threads.pc[t] = "waiting"
    /\ threads.lock = None
    /\ threads' = [threads EXCEPT !.lock = Some(t),
                                  !.pc[t] = "in",
                                  !.before[t] = Some(TheSession)]
    /\ UNCHANGED <<turntable, mixer, tracks, turntable_focus, show_debug_panel,
                   file_navigator, crashed, last, applied, playing, events, locks>>

\* t runs the first mutation of its handler and drops the guard at once:
\* a lock held per statement
ThreadBeginReleasing(t) ==
    /\ threads.pc[t] = "in"
    /\ SessionBecomes(HandlerBegin(TheSession, Unwrap(threads.cur[t])))
    /\ threads' = [threads EXCEPT !.pc[t] = "mid", !.lock = None]
    /\ UNCHANGED <<show_debug_panel, file_navigator, crashed, last, applied,
                   playing, events, locks>>

\* t runs the first mutation of its handler
ThreadBegin(t) ==
    /\ threads.pc[t] = "in"
    /\ SessionBecomes(HandlerBegin(TheSession, Unwrap(threads.cur[t])))
    /\ threads' = [threads EXCEPT !.pc[t] = "mid"]
    /\ UNCHANGED <<show_debug_panel, file_navigator, crashed, last, applied,
                   playing, events, locks>>

\* t runs the rest of its handler, returns from it and drops the guard
ThreadFinish(t) ==
    /\ threads.pc[t] = "mid"
    /\ SessionBecomes(HandlerEnd(TheSession, Unwrap(threads.cur[t])))
    /\ threads' = [threads EXCEPT
                     !.lock = IF @ = Some(t) THEN None ELSE @,
                     !.pc[t] = "out",
                     !.cur[t] = None,
                     !.before[t] = None,
                     !.log = Append(@, [thread |-> t,
                                        e |-> Unwrap(threads.cur[t])])]
    /\ last' = Call(ThreadEventName(Unwrap(threads.cur[t])),
                    Unwrap(threads.cur[t]).arg, "", "")
    /\ UNCHANGED <<show_debug_panel, file_navigator, crashed, applied, playing,
                   events, locks>>

\* the two threads dispatching up to MaxThreadEvents events and frames
NextThreads ==
    \/ \E t \in Threads : \E e \in EventsOf(t) : ThreadDispatch(t, e)
    \/ \E t \in Threads : ThreadAcquire(t)
    \/ \E t \in Threads : ThreadBegin(t)
    \/ \E t \in Threads : ThreadFinish(t)

SpecThreads ==
    Init /\ [][NextThreads]_vars

(***************************************************************************)
(* The locks Turntable::load takes: the deck's output track, then the      *)
(* audio manager both decks share (turntable.rs:94-107). A load on each    *)
(* deck and an operation of the bus graph on a channel's track run side by *)
(* side, one lock operation per step.                                      *)
(***************************************************************************)
\* load(path) up to its first lock: the two early returns, or the decoded
\* file stored and the old playback stopped, with the track's lock next
LoadEnter(d, path, playOk) ==
    /\ ~crashed
    /\ locks.pc[d] = "idle"
    /\ IF Load(turntable[d], path, playOk).res \in {"IsPlaying", "FromFile"}
       THEN /\ TurntableLoad(d, path, playOk)
            /\ UNCHANGED locks
       ELSE /\ locks' = [locks EXCEPT !.pc[d] = "want_track",
                                      !.arg[d] = <<path, playOk>>]
            /\ UNCHANGED <<turntable, mixer, tracks, turntable_focus,
                           show_debug_panel, file_navigator, crashed, last,
                           applied, playing>>
    /\ UNCHANGED <<events, threads>>

\* self.output_destination.lock() returns: the deck holds its track's lock
\* while output_destination(..) reads the handle
LoadLockTrack(d) ==
    /\ locks.pc[d] = "want_track"
    /\ locks.track[d] = None
    /\ locks' = [locks EXCEPT !.track[d] = Some(d), !.pc[d] = "has_track"]
    /\ UNCHANGED <<turntable, mixer, tracks, turntable_focus, show_debug_panel,
                   file_navigator, crashed, last, applied, playing, events,
                   threads>>

\* the track's guard bound to a variable of load, alive until load returns
LoadKeepTrack(d) ==
    /\ locks.pc[d] = "has_track"
    /\ locks' = [locks EXCEPT !.pc[d] = "want_manager"]
    /\ UNCHANGED <<turntable, mixer, tracks, turntable_focus, show_debug_panel,
                   file_navigator, crashed, last, applied, playing, events,
                   threads>>

\* the end of the let settings statement: the track's guard, a temporary of
\* the statement, is dropped; the manager's lock is next
LoadUnlockTrack(d) ==
    /\ locks.pc[d] = "has_track"
    /\ locks' = [locks EXCEPT !.track[d] = None, !.pc[d] = "want_manager"]
    /\ UNCHANGED <<turntable, mixer, tracks, turntable_focus, show_debug_panel,
                   file_navigator, crashed, last, applied, playing, events,
                   threads>>

\* self.audio_manager.lock() returns
LoadLockManager(d) ==
    /\ locks.pc[d] = "want_manager"
    /\ locks.manager = None
    /\ locks' = [locks EXCEPT !.manager = Some(d), !.pc[d] = "has_manager"]
    /\ UNCHANGED <<turntable, mixer, tracks, turntable_focus, show_debug_panel,
                   file_navigator, crashed, last, applied, playing, events,
                   threads>>

\* play() under the manager's lock and the return of load: Ok with the new
\* playback or Err(Play); every guard load holds is dropped
LoadPlay(d) ==
    /\ locks.pc[d] = "has_manager"
    /\ TurntableLoad(d, locks.arg[d][1], locks.arg[d][2])
    /\ locks' = [locks EXCEPT !.manager = None,
                              !.track[d] = IF @ = Some(d) THEN None ELSE @,
                              !.pc[d] = "idle",
                              !.arg[d] = <<>>]
    /\ UNCHANGED <<events, threads>>

\* an operation of the bus graph takes the lock of channel d's track
BusLockTrack(d) ==
    /\ locks.bus = None
    /\ locks.track[d] = None
    /\ locks' = [locks EXCEPT !.track[d] = Some(0), !.bus = Some(d)]
    /\ UNCHANGED <<turntable, mixer, tracks, turntable_focus, show_debug_panel,
                   file_navigator, crashed, last, applied, playing, events,
                   threads>>

\* the operation of the bus graph re-applies the channel's route to the
\* master track and drops the lock
BusUnlockTrack ==
    /\ IsSome(locks.bus)
    /\ LET d == Unwrap(locks.bus)
           m == RouteChVolume(TheMixer, d)
       IN  /\ mixer' = m.mixer
           /\ tracks' = m.tracks
           /\ locks' = [locks EXCEPT !.track[d] = None, !.bus = None]
    /\ UNCHANGED <<turntable, turntable_focus, show_debug_panel, file_navigator,
                   crashed, last, applied, playing, events, threads>>

\* loads on both decks and operations of the bus graph, side by side
NextLocks ==
    \/ \E d \in Decks, path \in Paths, playOk \in BOOLEAN :
          LoadEnter(d, path, playOk)
    \/ \E d \in Decks : LoadLockTrack(d)
    \/ \E d \in Decks : LoadUnlockTrack(d)
    \/ \E d \in Decks : LoadLockManager(d)
    \/ \E d \in Decks : LoadPlay(d)
    \/ \E d \in Decks : BusLockTrack(d)
    \/ BusUnlockTrack

SpecLocks ==
    Init /\ [][NextLocks]_vars

(***************************************************************************)
(* The MIDI input layer: App::on_midi_event (src/src/app.rs)               *)
(***************************************************************************)
\* f64::log10 of the integers 1..128, in ten-thousandths
Log10Table ==
    <<
      0, 3010, 4771, 6021, 6990, 7782, 8451, 9031,
      9542, 10000, 10414, 10792, 11139, 11461, 11761, 12041,
      12304, 12553, 12788, 13010, 13222, 13424, 13617, 13802,
      13979, 14150, 14314, 14472, 14624, 14771, 14914, 15051,
      15185, 15315, 15441, 15563, 15682, 15798, 15911, 16021,
      16128, 16232, 16335, 16435, 16532, 16628, 16721, 16812,
      16902, 16990, 17076, 17160, 17243, 17324, 17404, 17482,
      17559, 17634, 17709, 17782, 17853, 17924, 17993, 18062,
      18129, 18195, 18261, 18325, 18388, 18451, 18513, 18573,
      18633, 18692, 18751, 18808, 18865, 18921, 18976, 19031,
      19085, 19138, 19191, 19243, 19294, 19345, 19395, 19445,
      19494, 19542, 19590, 19638, 19685, 19731, 19777, 19823,
      19868, 19912, 19956, 20000, 20043, 20086, 20128, 20170,
      20212, 20253, 20294, 20334, 20374, 20414, 20453, 20492,
      20531, 20569, 20607, 20645, 20682, 20719, 20755, 20792,
      20828, 20864, 20899, 20934, 20969, 21004, 21038, 21072
    >>

\* f64::log10 of an integer of 1..128
Log10(n) ==
    R(Log10Table[n], 10000)

\* the data bytes of the messages: both ends of the range 0..127 of a MIDI
\* data byte, their neighbours and the middle
MidiValues ==
    {0, 1, 64, 126, 127}

\* the messages of the controller: note-on (144) and control change (176)
\* on the keys on_midi_event matches, and on one it does not
MidiMessages ==
    {<<status, key, value>> :
        status \in {144, 176},
        key \in {1, 2, 3, 4, 6, 16, 17, 18, 19, 20, 21, 22, 23},
        value \in MidiValues}

\* the payload on_midi_event makes of a volume fader's value
MidiVolume(value) ==
    Remap(RInt(value), R0, RInt(127), R0, R1)

\* the payload on_midi_event makes of a pitch fader's value
MidiPitch(value) ==
    Remap(RInt(value), R0, RInt(127), R(106, 100), R(94, 100))

\* the payload on_midi_event makes of an EQ knob's value
MidiEq(value) ==
    Remap(Log10(value + 1), R0, Log10(127), RInt(-24), RInt(3))

\* App::on_midi_event(message): the arms in the order of the match
OnMidiEvent(message) ==
    LET status == message[1]
        key    == message[2]
        value  == message[3]
    IN  IF status = 144 /\ key = 1 THEN ToggleCue(1)
        ELSE IF status = 144 /\ key = 4 THEN ToggleCue(2)
        ELSE IF status = 144 /\ key = 3 THEN FocusChanged(1)
        ELSE IF status = 144 /\ key = 6 THEN FocusChanged(2)
        ELSE IF key = 18 THEN VolumeChanged(1, MidiVolume(value))
        ELSE IF key = 22 THEN VolumeChanged(2, MidiVolume(value))
        ELSE IF key = 19 THEN PitchChanged(1, MidiPitch(value))
        ELSE IF key = 23 THEN PitchChanged(2, MidiPitch(value))
        ELSE IF key = 17 THEN EqLowChanged(1, MidiEq(value))
        ELSE IF key = 16 THEN EqHighChanged(1, MidiEq(value))
        ELSE IF key = 21 THEN EqLowChanged(2, MidiEq(value))
        ELSE IF key = 20 THEN EqHighChanged(2, MidiEq(value))
        ELSE /\ ~crashed
             /\ last' = Call("on_midi_event", R0, "", "unmatched")
             /\ UNCHANGED <<turntable, mixer, tracks, turntable_focus,
                            show_debug_panel, file_navigator, crashed, applied,
                            playing>>

\* a step of a specification that bounds its behaviours to MaxMidiEvents
\* messages
MidiCounted ==
    events < MaxMidiEvents /\ events' = events + 1 /\ UNCHANGED <<threads, locks>>

\* the controller sending up to MaxMidiEvents messages
NextMidi ==
    \E message \in MidiMessages : MidiCounted /\ OnMidiEvent(message)

SpecMidi ==
    Init /\ [][NextMidi]_vars

(***************************************************************************)
(* Claims about load                                                       *)
(***************************************************************************)
\* the values Turntable::load returns
LoadResults ==
    {"Ok", "IsPlaying", "FromFile", "Play"}

\* the call recorded in c dispatched TrackLoad, directly or through
\* FileNavigatorSelect resolving to a file, so load() ran on the focused deck
LoadDispatched(c) ==
    \/ c.ev = "TrackLoad"
    \/ c.ev = "FileNavigatorSelect" /\ c.res \in LoadResults

\* the step is a dispatch whose load() on the focused deck returned an Err
LoadFailedStep ==
    LoadDispatched(last') /\ last'.res # "Ok"

\* loaded_source, active_playback and source_path of deck d are the same
\* before and after the step
SourceUnchanged(d) ==
    /\ turntable'[d].sound_data = turntable[d].sound_data
    /\ turntable'[d].sound = turntable[d].sound
    /\ turntable'[d].currently_loaded = turntable[d].currently_loaded

\* C1: whenever load(path) runs on a deck whose is_playing is true, it
\* returns LoadError::IsPlaying and the deck's sound_data, sound (the same
\* playback, not stopped by the call) and currently_loaded are what they
\* were before the call.
C1_LoadWhilePlayingRefused ==
    [][(LoadDispatched(last') /\ turntable[turntable_focus].is_playing)
        => (last'.res = "IsPlaying" /\ SourceUnchanged(turntable_focus))]_vars

\* C1 witness: a deck with a loaded, running playback was playing when a
\* load of the other file was refused with IsPlaying.
C1_Witness ==
    /\ last.ev = "TrackLoad"
    /\ last.res = "IsPlaying"
    /\ last.path = "/music/sets/b.mp3"
    /\ turntable[turntable_focus].is_playing
    /\ turntable[turntable_focus].currently_loaded = Some("/music/a.mp3")
    /\ IsSome(turntable[turntable_focus].sound)
    /\ ~Unwrap(turntable[turntable_focus].sound).stopped

\* C2 as claimed: whenever load(path) returns an error, the deck's
\* sound_data, sound and currently_loaded are unchanged from before the call.
C2_LoadErrorLeavesStateIntact ==
    [][LoadFailedStep => SourceUnchanged(turntable_focus)]_vars

\* C3 as claimed: a dispatch of TrackLoad (directly or through
\* FileNavigatorSelect) whose load fails returns normally and leaves the
\* decks, the bus graph and the focus as they were.
C3_LoadFailureIsNonFatal ==
    [][LoadFailedStep =>
        (~crashed' /\ UNCHANGED <<turntable, mixer, tracks, turntable_focus>>)]_vars

(***************************************************************************)
(* Claims about the deck simulation                                        *)
(***************************************************************************)
\* the deck a deck-addressed event names, 0 for any other event
DeckOf(ev, prefix, suffix) ==
    IF ev = EventName(prefix, 1, suffix) THEN 1
    ELSE IF ev = EventName(prefix, 2, suffix) THEN 2
    ELSE 0

\* what C4 says set_pitch(v) stores
ClaimedPitchTarget(v) ==
    IF RLt(R(108, 100), v) THEN R(108, 100)
    ELSE IF RLt(v, R(92, 100)) THEN R(92, 100)
    ELSE v

\* C4: in every reachable state each deck's pitch_target lies in
\* [0.92, 1.08], and right after PitchOneChanged(v) / PitchTwoChanged(v) the
\* named deck's pitch_target is 1.08 if v > 1.08, 0.92 if v < 0.92 and v
\* otherwise.
C4_PitchTargetClamped ==
    /\ \A d \in Decks :
          /\ RLe(R(92, 100), turntable[d].pitch_target)
          /\ RLe(turntable[d].pitch_target, R(108, 100))
    /\ \A d \in Decks :
          DeckOf(last.ev, "Pitch", "Changed") = d
             => turntable[d].pitch_target = ClaimedPitchTarget(last.arg)

\* C4 witness: PitchTwoChanged(2.0) has just been handled and deck Two's
\* pitch_target is 1.08.
C4_Witness ==
    /\ last.ev = "PitchTwoChanged"
    /\ last.arg = RInt(2)
    /\ turntable[2].pitch_target = R(108, 100)

\* the sum of a sequence of forces, added in the order they were applied
RECURSIVE RSum(_)
RSum(forces) ==
    IF forces = <<>>
    THEN R0
    ELSE RAdd(RSum(SubSeq(forces, 1, Len(forces) - 1)), forces[Len(forces)])

\* the sum of a sequence of forces, added in the opposite order
RECURSIVE RSumReversed(_)
RSumReversed(forces) ==
    IF forces = <<>>
    THEN R0
    ELSE RAdd(RSumReversed(Tail(forces)), Head(forces))

\* the step is a frame: process(delta) ran on both decks, delta = last'.arg
TickStep ==
    last'.ev = "process"

\* C5: at every tick, the force each deck's process() works with is the sum
\* of the deltas applied to that deck since the previous tick, whatever the
\* order they came in (normalized: sum * 0.02 / delta), and the deck's
\* pending force is 0 right after the tick.
C5_TickConsumesSumOfForces ==
    [][TickStep => \A d \in Decks :
        /\ turntable[d].force = RSum(applied[d])
        /\ turntable[d].force = RSumReversed(applied[d])
        /\ NormalizedForce(turntable[d], last'.arg)
              = RDiv(RMul(RSum(applied[d]), R(2, 100)), last'.arg)
        /\ turntable'[d].force = R0]_vars

\* C5 witness: after apply_force(42.0) and apply_force(-69.0) on the stopped
\* deck One, a tick of 20 ms has consumed -27.0: pitch_true went from 0 to
\* 0.8 * (0.01 * -27.0) = -0.216, and the pending force is 0 again.
C5_Witness ==
    /\ last.ev = "process"
    /\ last.arg = R(20, 1000)
    /\ ~turntable[1].is_playing
    /\ ~turntable[1].is_scratching
    /\ turntable[1].pitch_true = R(-216, 1000)
    /\ turntable[1].force = R0

\* what C6 says a tick of delta seconds smooths deck t toward
ClaimedTarget(t, delta) ==
    LET normalized_force == RDiv(RMul(t.force, R(2, 100)), delta)
    IN  CASE t.is_scratching -> RMul(R(1, 10), normalized_force)
          [] ~t.is_scratching /\ t.is_playing ->
                RAdd(t.pitch_target, RMul(R(1, 100), normalized_force))
          [] ~t.is_scratching /\ ~t.is_playing ->
                RMul(R(1, 100), normalized_force)

\* C6: every tick moves each deck's pitch_true toward a target chosen with
\* scratching first: 0.1 * normalized_force if is_scratching (playing or
\* not, pitch_target ignored), else pitch_target + 0.01 * normalized_force
\* if is_playing, else 0.01 * normalized_force, where normalized_force is
\* pending force * 0.02 / delta; the move is lerp with weight 0.016 / delta.
C6_TickTargetByState ==
    [][TickStep => \A d \in Decks :
        turntable'[d].pitch_true =
            RAdd(turntable[d].pitch_true,
                 RMul(RSub(ClaimedTarget(turntable[d], last'.arg),
                           turntable[d].pitch_true),
                      RDiv(R(16, 1000), last'.arg)))]_vars

\* C6 witness: deck One was both playing and scratching with a pending
\* force of 42.0 when a tick of 20 ms took pitch_true from 0 to
\* 0.8 * (0.1 * 42.0) = 3.36, not toward pitch_target.
C6_Witness ==
    /\ last.ev = "process"
    /\ last.arg = R(20, 1000)
    /\ turntable[1].is_playing
    /\ turntable[1].is_scratching
    /\ turntable[1].pitch_true = R(336, 100)

\* C7 as claimed: on a tick of a deck that is stopped, not scratching and
\* has no pending force, |pitch_true| does not increase, for any delta.
C7_StoppedDeckPitchNeverGrows ==
    [][TickStep => \A d \in Decks :
        (~turntable[d].is_playing /\ ~turntable[d].is_scratching
            /\ turntable[d].force = R0)
        => RLe(RAbs(turntable'[d].pitch_true), RAbs(turntable[d].pitch_true))]_vars

(***************************************************************************)
(* Claims about the bus graph                                              *)
(***************************************************************************)
\* C8 as claimed: get_cue_mix_value() is in [0, 1] in every reachable state,
\* and right after CueMixChanged(value) it returns clamp(value, 0, 1).
C8_StoredCueMixIsClamped ==
    /\ RLe(R0, GetCueMixValue(TheMixer))
    /\ RLe(GetCueMixValue(TheMixer), R1)
    /\ last.ev = "CueMixChanged"
          => GetCueMixValue(TheMixer) = RClamp(last.arg, R0, R1)

\* C9: CueMixChanged(value), for any value, leaves the cue track's volume at
\* 1 - clamp(value, 0, 1) and the master track's at clamp(value, 0, 1), both
\* in [0, 1] and summing to 1; no other event or tick changes either volume.
C9_BusVolumesFollowCueMix ==
    [][IF last'.ev = "CueMixChanged"
       THEN /\ tracks'.cue_volume = RSub(R1, RClamp(last'.arg, R0, R1))
            /\ tracks'.master_volume = RClamp(last'.arg, R0, R1)
            /\ RAdd(tracks'.cue_volume, tracks'.master_volume) = R1
            /\ RLe(R0, tracks'.cue_volume) /\ RLe(tracks'.cue_volume, R1)
            /\ RLe(R0, tracks'.master_volume) /\ RLe(tracks'.master_volume, R1)
       ELSE /\ tracks'.cue_volume = tracks.cue_volume
            /\ tracks'.master_volume = tracks.master_volume]_vars

\* C9 witness: the cue mix was set to 0.25 and another event
\* (VolumeOneChanged) came after it; the volumes are still 0.75 and 0.25.
C9_Witness ==
    /\ last.ev = "VolumeOneChanged"
    /\ mixer.cue_mix_value = R(1, 4)
    /\ tracks.cue_volume = R(3, 4)
    /\ tracks.master_volume = R(1, 4)

\* C10: for the value x of every CueMixChanged handled, cue_crossfade(x) is
\* (1 - clamp(x, 0, 1), clamp(x, 0, 1)): its components sum to 1, it is
\* (1, 0) at 0, (0, 1) at 1 and (0.5, 0.5) at 0.5, every x < 0 gives
\* cue_crossfade(0) and every x > 1 gives cue_crossfade(1).
C10_CrossfadeFunction ==
    last.ev = "CueMixChanged" =>
        LET x   == last.arg
            out == cue_crossfade(x)
        IN  /\ out = <<RSub(R1, RClamp(x, R0, R1)), RClamp(x, R0, R1)>>
            /\ RAdd(out[1], out[2]) = R1
            /\ x = R0 => out = <<R1, R0>>
            /\ x = R1 => out = <<R0, R1>>
            /\ x = R(1, 2) => out = <<R(1, 2), R(1, 2)>>
            /\ RLt(x, R0) => out = cue_crossfade(R0) /\ out = <<R1, R0>>
            /\ RLt(R1, x) => out = cue_crossfade(R1) /\ out = <<R0, R1>>
            /\ <<tracks.cue_volume, tracks.master_volume>> = out

\* C10 witness: CueMixChanged(-1.0) has been handled and the volumes applied
\* are those of cue_crossfade(0.0).
C10_Witness ==
    /\ last.ev = "CueMixChanged"
    /\ last.arg = RInt(-1)
    /\ <<tracks.cue_volume, tracks.master_volume>> = <<R1, R0>>

\* the other deck / channel
Other(d) ==
    3 - d

\* C11: in every reachable state, the initial one included, each channel's
\* route to the master track weighs that channel's stored volume; and
\* VolumeOneChanged(v) / VolumeTwoChanged(v) sets the named channel's volume
\* and master route to v, leaving the other channel's volume and master
\* route, both cue flags and the cue mix as they were.
C11_MasterRouteIsChannelVolume ==
    /\ [](\A d \in Decks : tracks.route_master[d] = GetChVolume(TheMixer, d))
    /\ [][\A d \in Decks :
            DeckOf(last'.ev, "Volume", "Changed") = d =>
               /\ mixer'.ch_volume[d] = last'.arg
               /\ tracks'.route_master[d] = last'.arg
               /\ mixer'.ch_volume[Other(d)] = mixer.ch_volume[Other(d)]
               /\ tracks'.route_master[Other(d)] = tracks.route_master[Other(d)]
               /\ mixer'.cue_enabled = mixer.cue_enabled
               /\ mixer'.cue_mix_value = mixer.cue_mix_value]_vars

\* C11 witness: VolumeTwoChanged(0.5) has been handled after channel One
\* was set to 1.0: channel Two's volume and master route are 0.5, channel
\* One's are still 1.0.
C11_Witness ==
    /\ last.ev = "VolumeTwoChanged"
    /\ last.arg = R(1, 2)
    /\ mixer.ch_volume = <<R1, R(1, 2)>>
    /\ tracks.route_master = <<R1, R(1, 2)>>

\* C12: in every reachable state, the initial one included, each channel's
\* route to the cue track weighs 1.0 if the channel's cue flag is set and
\* 0.0 otherwise; and ToggleCueOne / ToggleCueTwo flips the named channel's
\* flag, leaving the other channel's flag, both volumes and the cue mix as
\* they were (so that two toggles in a row restore the flag).
C12_CueRouteFollowsCueFlag ==
    /\ [](\A d \in Decks :
            tracks.route_cue[d] = IF IsCueEnabled(TheMixer, d) THEN R1 ELSE R0)
    /\ [][\A d \in Decks :
            DeckOf(last'.ev, "ToggleCue", "") = d =>
               /\ mixer'.cue_enabled[d] = ~mixer.cue_enabled[d]
               /\ mixer'.cue_enabled[Other(d)] = mixer.cue_enabled[Other(d)]
               /\ mixer'.ch_volume = mixer.ch_volume
               /\ mixer'.cue_mix_value = mixer.cue_mix_value]_vars

\* C12 witness: ToggleCueOne has been handled; channel One is cued and
\* routed to the cue track with weight 1.0, channel Two is not.
C12_Witness ==
    /\ last.ev = "ToggleCueOne"
    /\ mixer.cue_enabled = <<TRUE, FALSE>>
    /\ tracks.route_cue = <<R1, R0>>

(***************************************************************************)
(* Claims about the dispatcher                                             *)
(***************************************************************************)
\* C13: handling FocusChanged(f) leaves the focus at f and both decks and
\* the bus graph as they were; handling any other event, FileNavigatorSelect
\* re-entering with TrackLoad included, or running a frame, leaves the focus
\* as it was.
C13_FocusChangesOnlyByFocusChanged ==
    [][IF DeckOf(last'.ev, "FocusChanged", "") # 0
       THEN /\ turntable_focus' = DeckOf(last'.ev, "FocusChanged", "")
            /\ UNCHANGED <<turntable, mixer, tracks>>
       ELSE turntable_focus' = turntable_focus]_vars

\* C13 witness: FocusChanged(Two) has been handled and a file then selected
\* in the navigator was loaded on deck Two; the focus is still Two and deck
\* One is still empty.
C13_Witness ==
    /\ last.ev = "FileNavigatorSelect"
    /\ last.res = "Ok"
    /\ turntable_focus = 2
    /\ IsSome(turntable[2].currently_loaded)
    /\ ~IsSome(turntable[1].currently_loaded)

\* the step handled a focus-relative event that reached the focused deck
FocusRelativeStep ==
    \/ LoadDispatched(last')
    \/ last'.ev \in {"ScratchBegin", "ScratchEnd", "ForceApplied"}

\* C14: TrackLoad, ScratchBegin, ScratchEnd, ForceApplied and a
\* FileNavigatorSelect resolving to a file act on the deck the focus names:
\* that deck is loaded, scratching, not scratching or given the force, the
\* other deck is exactly as before, and so is the bus graph.
C14_FocusRelativeEventsHitFocusedDeck ==
    [][FocusRelativeStep =>
        LET f == turntable_focus
        IN  /\ turntable'[Other(f)] = turntable[Other(f)]
            /\ UNCHANGED <<mixer, tracks>>
            /\ (LoadDispatched(last') /\ last'.res = "Ok")
                  => turntable'[f].currently_loaded = Some(last'.path)
            /\ last'.ev = "ScratchBegin" => turntable'[f].is_scratching
            /\ last'.ev = "ScratchEnd" => ~turntable'[f].is_scratching
            /\ last'.ev = "ForceApplied"
                  => turntable'[f].force = RAdd(turntable[f].force, last'.arg)]_vars

\* C14 witness: with focus Two, ForceApplied(42.0) has been handled: deck
\* Two has a pending force of 42.0 and deck One has none.
C14_Witness ==
    /\ last.ev = "ForceApplied"
    /\ last.arg = RInt(42)
    /\ turntable_focus = 2
    /\ turntable[2].force = RInt(42)
    /\ turntable[1] = NewTurntable

\* the deck a deck-addressed transport event names, 0 for any other event
AddressedDeck(ev) ==
    IF DeckOf(ev, "ToggleStartStop", "") # 0 THEN DeckOf(ev, "ToggleStartStop", "")
    ELSE IF DeckOf(ev, "Pitch", "Changed") # 0 THEN DeckOf(ev, "Pitch", "Changed")
    ELSE DeckOf(ev, "Seek", "")

\* C15: ToggleStartStopOne / Two, PitchOneChanged / TwoChanged and SeekOne /
\* SeekTwo act on the deck they name, whichever deck has the focus: that
\* deck's transport is flipped, its pitch target set or its playback
\* repositioned, while the other deck, the focus and the bus graph are as
\* before.
C15_DeckAddressedEventsHitNamedDeck ==
    [][\A d \in Decks :
        AddressedDeck(last'.ev) = d =>
           /\ turntable'[Other(d)] = turntable[Other(d)]
           /\ UNCHANGED <<turntable_focus, mixer, tracks>>
           /\ DeckOf(last'.ev, "ToggleStartStop", "") = d
                 => turntable'[d].is_playing = ~turntable[d].is_playing
           /\ DeckOf(last'.ev, "Pitch", "Changed") = d
                 => turntable'[d].pitch_target = RClamp(last'.arg, R(92, 100), R(108, 100))
           /\ (DeckOf(last'.ev, "Seek", "") = d /\ last'.res = "Ok")
                 => Position(turntable'[d])
                      = Some(RMul(last'.arg, Unwrap(Duration(turntable[d]))))]_vars

\* C15 witness: with focus One, PitchTwoChanged(0.95) has been handled: deck
\* Two's pitch target is 0.95 and deck One's is still 1.0.
C15_Witness ==
    /\ last.ev = "PitchTwoChanged"
    /\ last.arg = R(95, 100)
    /\ turntable_focus = 1
    /\ turntable[2].pitch_target = R(95, 100)
    /\ turntable[1].pitch_target = R1

(***************************************************************************)
(* Claims about the transport                                              *)
(***************************************************************************)
\* C16 as claimed: a deck with no source loaded is never playing, however
\* many times its transport was toggled.
C16_ToggleWithoutSourceStaysStopped ==
    \A d \in Decks : ~IsSome(turntable[d].sound_data) => ~turntable[d].is_playing

\* C16 as amended: ToggleStartStopOne / Two on a deck with no source loaded
\* flips is_playing as on any deck, and starts nothing: the deck still has no
\* source, no playback and no position after it.
C16_ToggleWithoutSourceStartsNothing ==
    [][\A d \in Decks :
        (DeckOf(last'.ev, "ToggleStartStop", "") = d /\ ~IsSome(turntable[d].sound_data))
        => /\ turntable'[d].is_playing = ~turntable[d].is_playing
           /\ turntable'[d].sound_data = None
           /\ turntable'[d].sound = None
           /\ Position(turntable'[d]) = None]_vars

\* C16 witness: ToggleStartStopTwo has been handled on the empty deck Two,
\* which is now playing with no source and no playback.
C16_Witness ==
    /\ last.ev = "ToggleStartStopTwo"
    /\ turntable[2].is_playing
    /\ turntable[2].sound_data = None
    /\ turntable[2].sound = None

\* C17: ToggleStartStopOne / Two flips the named deck's is_playing and
\* leaves every other field of the deck as it was; on a deck as
\* Turntable::new makes it the first call gives true and the second false,
\* and on every reachable deck two calls in a row give the deck back.
C17_ToggleFlipsAndRestores ==
    /\ [](\A d \in Decks :
            /\ ToggleStartStop(ToggleStartStop(turntable[d])) = turntable[d]
            /\ ToggleStartStop(turntable[d]).is_playing # turntable[d].is_playing
            /\ turntable[d] = NewTurntable =>
                  /\ ToggleStartStop(turntable[d]).is_playing = TRUE
                  /\ ToggleStartStop(ToggleStartStop(turntable[d])).is_playing = FALSE)
    /\ [][\A d \in Decks :
            DeckOf(last'.ev, "ToggleStartStop", "") = d =>
               turntable'[d] = [turntable[d] EXCEPT !.is_playing = ~turntable[d].is_playing]]_vars

\* C17 witness: ToggleStartStopOne has been handled twice in a row from the
\* start; deck One is stopped again and is the deck Turntable::new made.
C17_Witness ==
    /\ events = 2
    /\ last.ev = "ToggleStartStopOne"
    /\ ~turntable[1].is_playing
    /\ turntable[1] = NewTurntable

(***************************************************************************)
(* Claims about a successful load, set_pitch and seek                      *)
(***************************************************************************)
\* C18: a load that succeeds ran on a stopped deck and leaves it with the
\* new source, a new running playback of it at position 0.0 and the new
\* path, together (duration() is Some, position() is Some(0.0),
\* currently_loaded() is Some(path)); the playback the deck held before has
\* been stopped, so that in every reachable state the engine runs at most
\* one playback per deck, the one the deck holds the handle of.
C18_LoadReplacesSourceAndStopsPrior ==
    /\ [](\A d \in Decks : playing[d] <= 1 /\ playing[d] = Running(turntable[d]))
    /\ [][(LoadDispatched(last') /\ last'.res = "Ok") =>
            LET f    == turntable_focus
                deck == turntable'[f]
            IN  /\ ~turntable[f].is_playing
                /\ deck.sound_data = Some(SoundData(last'.path))
                /\ deck.sound = Some(NewSound(last'.path))
                /\ CurrentlyLoaded(deck) = Some(last'.path)
                /\ Duration(deck) = Some(DurationOf(last'.path))
                /\ Position(deck) = Some(R0)
                /\ playing'[f] = 1]_vars

\* C18 witness: with /music/a.mp3 loaded on deck One, TrackLoad of
\* /music/sets/b.mp3 has succeeded on the focused deck Two; the engine runs
\* one playback per deck, deck Two's at position 0.0.
C18_Witness ==
    /\ last.ev = "TrackLoad"
    /\ last.res = "Ok"
    /\ last.path = "/music/sets/b.mp3"
    /\ turntable_focus = 2
    /\ CurrentlyLoaded(turntable[2]) = Some("/music/sets/b.mp3")
    /\ Position(turntable[2]) = Some(R0)
    /\ CurrentlyLoaded(turntable[1]) = Some("/music/a.mp3")
    /\ playing = <<1, 1>>

\* C19: PitchOneChanged / PitchTwoChanged changes nothing of the named deck
\* but pitch_target: pitch_true, the playback and the rate applied to it,
\* is_playing, is_scratching and the pending force are as before the call;
\* the new target reaches them at the next process() only.
C19_SetPitchChangesOnlyTarget ==
    [][\A d \in Decks :
        DeckOf(last'.ev, "Pitch", "Changed") = d =>
           /\ turntable'[d].pitch_true = turntable[d].pitch_true
           /\ turntable'[d].sound = turntable[d].sound
           /\ turntable'[d].is_playing = turntable[d].is_playing
           /\ turntable'[d].is_scratching = turntable[d].is_scratching
           /\ turntable'[d].force = turntable[d].force
           /\ turntable'[d] = [turntable[d] EXCEPT
                                  !.pitch_target = turntable'[d].pitch_target]]_vars

\* C19 witness: deck One holds a playback whose rate a frame has set to the
\* stopped deck's pitch_true, 0.0, and PitchOneChanged(0.95) has been handled
\* since: the target is 0.95, pitch_true and the rate are still 0.0.
C19_Witness ==
    /\ last.ev = "PitchOneChanged"
    /\ last.arg = R(95, 100)
    /\ turntable[1].pitch_target = R(95, 100)
    /\ turntable[1].pitch_true = R0
    /\ IsSome(turntable[1].sound)
    /\ Unwrap(turntable[1].sound).rate = R0

\* C20: SeekOne(percent) / SeekTwo(percent) on a deck with no source gets
\* EmptyDuration from seek, on a deck with a source but no playback gets
\* EmptySound, and the deck is unchanged in both cases; otherwise seek
\* returns Ok and the playback's position is percent * duration, nothing
\* else of the deck having changed. In every case the dispatcher returns
\* normally.
C20_SeekResults ==
    [][\A d \in Decks :
        DeckOf(last'.ev, "Seek", "") = d =>
           LET t == turntable[d]
           IN  /\ ~crashed'
               /\ ~IsSome(t.sound_data)
                     => last'.res = "EmptyDuration" /\ turntable'[d] = t
               /\ (IsSome(t.sound_data) /\ ~IsSome(t.sound))
                     => last'.res = "EmptySound" /\ turntable'[d] = t
               /\ (IsSome(t.sound_data) /\ IsSome(t.sound))
                     => /\ last'.res = "Ok"
                        /\ Position(turntable'[d])
                              = Some(RMul(last'.arg, Unwrap(t.sound_data).duration))
                        /\ turntable'[d] = [t EXCEPT !.sound = turntable'[d].sound]
                        /\ Unwrap(turntable'[d].sound)
                              = [Unwrap(t.sound) EXCEPT
                                   !.position = Unwrap(turntable'[d].sound).position]]_vars

\* C20 witness: deck Two has a source but no playback (the engine refused
\* to play it) and SeekTwo(0.5) has been handled: seek returned EmptySound,
\* the deck is as it was and the dispatcher is alive.
C20_Witness ==
    /\ last.ev = "SeekTwo"
    /\ last.arg = R(1, 2)
    /\ last.res = "EmptySound"
    /\ IsSome(turntable[2].sound_data)
    /\ turntable[2].sound = None
    /\ ~crashed

\* C20 second case reached: SeekOne(0.5) has moved the playback of
\* /music/a.mp3 (85.68 s) to 42.84 s.
C20_SeekReachesPosition ==
    /\ last.ev = "SeekOne"
    /\ last.res = "Ok"
    /\ CurrentlyLoaded(turntable[1]) = Some("/music/a.mp3")
    /\ Position(turntable[1]) = Some(R(4284, 100))

(***************************************************************************)
(* Claims about position() and duration()                                  *)
(***************************************************************************)
\* C21 as claimed: on every deck, after any sequence of loads that
\* succeeded or failed, position() is None exactly when nothing is loaded
\* and duration() is None exactly when nothing is loaded, so that the two
\* are both None or both Some.
C21_PositionAndDurationAgree ==
    \A d \in Decks :
        /\ (Position(turntable[d]) = None) <=> (CurrentlyLoaded(turntable[d]) = None)
        /\ (Duration(turntable[d]) = None) <=> (CurrentlyLoaded(turntable[d]) = None)
        /\ (Position(turntable[d]) = None) <=> (Duration(turntable[d]) = None)

(***************************************************************************)
(* Claims about the dispatcher's recursion                                 *)
(***************************************************************************)
\* the entry under the navigator's cursor is an audio file: what select()
\* resolves to a file
SelectionIsFile(nav) ==
    /\ nav.cursor_stack # <<>>
    /\ nav.cursor_stack[Len(nav.cursor_stack)] < Len(nav.entries)
    /\ Extension(nav.entries[nav.cursor_stack[Len(nav.cursor_stack)] + 1]) = "mp3"

\* C22: FileNavigatorSelect nests one call of handle_event, TrackLoad of the
\* selected file's path on the focused deck, exactly when the entry under
\* the cursor is an audio file; when the selection is a directory or
\* nothing, no deck is touched and nothing is nested. No event nests more
\* than one call and no other event nests any, so handle_event returns (or
\* panics in load's unwrap) after at most one nested call.
C22_SelectRecursesOnceForFiles ==
    /\ [](last.nested <= 1)
    /\ [][IF last'.ev = "FileNavigatorSelect"
           THEN IF SelectionIsFile(file_navigator)
                THEN LET f    == turntable_focus
                         path == Cwd(file_navigator) \o "/"
                                   \o file_navigator.entries[Unwrap(Cursor(file_navigator)) + 1]
                     IN  /\ last'.nested = 1
                         /\ last'.path = path
                         /\ \E playOk \in BOOLEAN :
                               /\ last'.res = Load(turntable[f], path, playOk).res
                               /\ turntable'[f] = Load(turntable[f], path, playOk).t
                         /\ turntable'[Other(f)] = turntable[Other(f)]
                ELSE /\ last'.nested = 0
                     /\ last'.res \in {"Directory", "None"}
                     /\ UNCHANGED <<turntable, playing, crashed>>
           ELSE last'.nested = 0]_vars

\* C22 witness: FileNavigatorSelect on /music/sets/b.mp3 has loaded the file
\* on the focused deck Two through one nested TrackLoad; deck One is
\* untouched.
C22_Witness ==
    /\ last.ev = "FileNavigatorSelect"
    /\ last.nested = 1
    /\ last.res = "Ok"
    /\ last.path = "/music/sets/b.mp3"
    /\ turntable_focus = 2
    /\ CurrentlyLoaded(turntable[2]) = Some("/music/sets/b.mp3")
    /\ turntable[1] = NewTurntable

(***************************************************************************)
(* Claims about the equalizer                                              *)
(***************************************************************************)
\* C25: EqLowOneChanged(db), EqHighOneChanged(db), EqLowTwoChanged(db) and
\* EqHighTwoChanged(db) store db as it is, in range or not, as the gain of
\* the named band of the named channel, and apply it to that band's filter;
\* the three other gains, the volumes, the cue flags, the cue mix, the
\* routes, both decks and the focus are as before.
C25_EqEventsSetOneGain ==
    [][\A d \in Decks :
        /\ DeckOf(last'.ev, "EqLow", "Changed") = d =>
              /\ GetEqLowGain([mixer |-> mixer', tracks |-> tracks'], d) = last'.arg
              /\ mixer' = [mixer EXCEPT !.eq_low_gain[d] = last'.arg]
              /\ tracks' = [tracks EXCEPT !.filter_low[d] = last'.arg]
              /\ UNCHANGED <<turntable, turntable_focus>>
        /\ DeckOf(last'.ev, "EqHigh", "Changed") = d =>
              /\ GetEqHighGain([mixer |-> mixer', tracks |-> tracks'], d) = last'.arg
              /\ mixer' = [mixer EXCEPT !.eq_high_gain[d] = last'.arg]
              /\ tracks' = [tracks EXCEPT !.filter_high[d] = last'.arg]
              /\ UNCHANGED <<turntable, turntable_focus>>]_vars

\* C25 witness: after EqHighOneChanged(-24.0), EqLowTwoChanged(12.0) has been
\* handled: channel Two's low gain is 12.0 dB, out of the sliders' range,
\* channel One's high gain is still -24.0 and the two other gains are 0.
C25_Witness ==
    /\ last.ev = "EqLowTwoChanged"
    /\ last.arg = RInt(12)
    /\ mixer.eq_low_gain = <<R0, RInt(12)>>
    /\ mixer.eq_high_gain = <<RInt(-24), R0>>

(***************************************************************************)
(* Claims about the smoothing of the pitch                                 *)
(***************************************************************************)
\* C26: the weight of the tick's smoothing is 0.8 * 0.02 / delta, not clamped
\* to [0, 1]: at every tick shorter than 16 ms the weight is above 1 and, on
\* each deck, a pitch_true that started below the tick's target ends above
\* it and one that started above ends below it (one that started on the
\* target stays there).
C26_ShortTickOvershoots ==
    [][(TickStep /\ RLt(R0, last'.arg) /\ RLt(last'.arg, R(16, 1000))) =>
        /\ RLt(R1, SmoothingWeight(last'.arg))
        /\ \A d \in Decks :
              LET target == PitchPerState(turntable[d], last'.arg)
                  from   == turntable[d].pitch_true
                  to     == turntable'[d].pitch_true
              IN  /\ to = Lerp(from, target, SmoothingWeight(last'.arg))
                  /\ RLt(from, target) => RLt(target, to)
                  /\ RLt(target, from) => RLt(to, target)
                  /\ from = target => to = target]_vars

\* C26 witness: deck One plays with pitch_target 0.95 and pitch_true 0, and a
\* tick of 4 ms (weight 4) has just taken pitch_true to 3.8, past the target.
C26_Witness ==
    /\ last.ev = "process"
    /\ last.arg = R(4, 1000)
    /\ turntable[1].is_playing
    /\ turntable[1].pitch_target = R(95, 100)
    /\ turntable[1].pitch_true = R(38, 10)

(***************************************************************************)
(* Claims about the scratch gesture                                        *)
(***************************************************************************)
\* C27: once ScratchEnd has been handled, and until a ScratchBegin is, no
\* deck is scratching, whatever FocusChanged events came between the
\* ScratchBegin and the ScratchEnd of the gesture; stated on the state right
\* after ScratchEnd.
C27_NoDeckScratchesAfterScratchEnd ==
    last.ev = "ScratchEnd" => \A d \in Decks : ~turntable[d].is_scratching

(***************************************************************************)
(* Claims about the playback rate                                          *)
(***************************************************************************)
\* C28: in every state, after a tick as well as right after a load, the
\* rate of the playback a deck runs is the deck's pitch_true.
C28_PlaybackRateIsPitchTrue ==
    \A d \in Decks :
        Running(turntable[d]) = 1 =>
            Unwrap(turntable[d].sound).rate = turntable[d].pitch_true

(***************************************************************************)
(* Claims about the bus volumes from Mixer::new on                         *)
(***************************************************************************)
\* C29: in every reachable state, the one Mixer::new leaves included, the
\* cue and master track volumes are the crossfade of the stored cue mix:
\* with a stored cue mix in [0, 1], the cue track is at 1 - cue_mix and the
\* master track at cue_mix, 0.5 and 0.5 at the start.
C29_BusVolumesAgreeWithCueMix ==
    <<tracks.cue_volume, tracks.master_volume>>
        = cue_crossfade(GetCueMixValue(TheMixer))

(***************************************************************************)
(* Claims about the controls the UI dispatches on every frame              *)
(***************************************************************************)
\* C30: in every reachable state, handling CueMixChanged(get_cue_mix_value()),
\* VolumeOneChanged / VolumeTwoChanged(the channel's stored volume) or
\* PitchOneChanged / PitchTwoChanged(the deck's pitch()), as run_ui does on
\* every frame, leaves the mixer's fields, the applied track volumes and
\* route weights and the deck as they are.
C30_RedispatchedControlsChangeNothing ==
    /\ SetCueMixValue(TheMixer, GetCueMixValue(TheMixer)) = TheMixer
    /\ \A d \in Decks :
          /\ SetChVolume(TheMixer, d, GetChVolume(TheMixer, d)) = TheMixer
          /\ SetPitch(turntable[d], Pitch(turntable[d])) = turntable[d]

(***************************************************************************)
(* Claims about the two threads                                            *)
(***************************************************************************)
\* thread t is inside a handler: it has taken the lock and not yet given it
\* back
Inside(t) ==
    threads.pc[t] \in {"in", "mid"}

\* the thread that is not t
OtherThread(t) ==
    IF t = "primary" THEN "input" ELSE "primary"

\* the session after the whole handler of e has run on the session s, as
\* one thread alone runs it
HandlerWhole(s, e) ==
    IF e.kind = "Volume"
    THEN [s EXCEPT !.m = SetChVolume(@, e.d, e.arg)]
    ELSE IF e.kind = "Pitch"
    THEN [s EXCEPT !.turntable[e.d] = SetPitch(@, e.arg)]
    ELSE IF e.kind = "ToggleStartStop"
    THEN [s EXCEPT !.turntable[e.d] = ToggleStartStop(@)]
    ELSE [s EXCEPT !.turntable = [d \in Decks |-> Process(@[d], e.arg)]]

\* C23: the decks, the bus graph and the focus are behind one lock: the two
\* threads are never both inside a handler, a thread is inside exactly while
\* it holds the lock, every change of the session is a step of the thread
\* holding the lock while the other thread stands still, and when a thread
\* leaves its handler the session is what the whole handler (the event, or
\* the tick on both decks) makes of the session the thread found when it
\* took the lock.
C23_HandlersRunUnderOneLock ==
    /\ [](\A t \in Threads :
            /\ Inside(t) <=> threads.lock = Some(t)
            /\ Inside(t) => ~Inside(OtherThread(t)))
    /\ [][/\ TheSession' # TheSession =>
                \E t \in Threads :
                    /\ threads.lock = Some(t)
                    /\ threads'.pc[t] # threads.pc[t]
                    /\ threads'.pc[OtherThread(t)] = threads.pc[OtherThread(t)]
          /\ \A t \in Threads :
                (threads.pc[t] = "mid" /\ threads'.pc[t] = "out") =>
                    TheSession' = HandlerWhole(Unwrap(threads.before[t]),
                                               Unwrap(threads.cur[t]))]_vars

\* C23 witness: deck One plays; the event loop holds the lock and is half
\* way through a frame of 20 ms, deck One processed (pitch_true 0.8) and
\* deck Two not yet, while the MIDI thread waits for the lock with
\* VolumeOneChanged(1.0), which has changed nothing so far.
C23_Witness ==
    /\ threads.lock = Some("primary")
    /\ threads.pc["primary"] = "mid"
    /\ Unwrap(threads.cur["primary"]).kind = "process"
    /\ turntable[1].is_playing
    /\ turntable[1].pitch_true = R(8, 10)
    /\ threads.pc["input"] = "waiting"
    /\ threads.cur["input"] = Some(ThreadEvent("Volume", 1, R1))
    /\ mixer.ch_volume[1] = R0

\* the events of thread t in the log, in the order they were applied
RECURSIVE LogOf(_, _)
LogOf(log, t) ==
    IF log = <<>> THEN <<>>
    ELSE IF Head(log).thread = t
    THEN <<Head(log).e>> \o LogOf(Tail(log), t)
    ELSE LogOf(Tail(log), t)

\* the payload of the last event of the given kind and deck in the log,
\* initial if there is none
RECURSIVE LastWritten(_, _, _, _)
LastWritten(log, kind, d, initial) ==
    IF log = <<>> THEN initial
    ELSE LET e == log[Len(log)].e
         IN  IF e.kind = kind /\ e.d = d
             THEN e.arg
             ELSE LastWritten(SubSeq(log, 1, Len(log) - 1), kind, d, initial)

\* C24: the events a thread has had applied are the first of those it
\* dispatched, in the order it dispatched them; and whenever no handler is
\* running, each channel's stored volume and its route to the master track
\* are the payload of the VolumeChanged applied last on that channel, by
\* either thread (0.0 if none), and each deck's pitch_target is the clamped
\* payload of the PitchChanged applied last on that deck (1.0 if none).
C24_ThreadOrderAndLastWriterWins ==
    /\ \A t \in Threads :
          LET done == LogOf(threads.log, t)
          IN  /\ Len(done) <= Len(threads.issued[t])
              /\ done = SubSeq(threads.issued[t], 1, Len(done))
    /\ threads.lock = None =>
          \A d \in Decks :
              /\ mixer.ch_volume[d] = LastWritten(threads.log, "Volume", d, R0)
              /\ tracks.route_master[d]
                    = LastWritten(threads.log, "Volume", d, R0)
              /\ turntable[d].pitch_target
                    = RClamp(LastWritten(threads.log, "Pitch", d, R1),
                             R(92, 100), R(108, 100))

\* C24 witness: the MIDI thread's VolumeOneChanged(1.0) was applied, then
\* the event loop's VolumeOneChanged(0.5): channel One is at 0.5, stored and
\* routed, and nobody holds the lock.
C24_Witness ==
    /\ threads.lock = None
    /\ threads.log = <<[thread |-> "input", e |-> ThreadEvent("Volume", 1, R1)],
                       [thread |-> "primary",
                        e |-> ThreadEvent("Volume", 1, R(1, 2))]>>
    /\ mixer.ch_volume[1] = R(1, 2)
    /\ tracks.route_master[1] = R(1, 2)

(***************************************************************************)
(* Claims about the frame                                                  *)
(***************************************************************************)
\* C31: a frame runs process() on both decks with the one delta it was
\* given, and changes only each deck's pitch_true, the rate of the playback
\* it holds and its pending force: is_playing, is_scratching, pitch_target,
\* the decoded source, the playback's identity, position and stopped state,
\* the loaded path, the focus and the whole bus graph are as before.
C31_TickChangesPitchRateAndForceOnly ==
    [][TickStep =>
        /\ \A d \in Decks :
              /\ turntable'[d] = Process(turntable[d], last'.arg)
              /\ turntable'[d].is_playing = turntable[d].is_playing
              /\ turntable'[d].is_scratching = turntable[d].is_scratching
              /\ turntable'[d].pitch_target = turntable[d].pitch_target
              /\ turntable'[d].sound_data = turntable[d].sound_data
              /\ turntable'[d].currently_loaded = turntable[d].currently_loaded
              /\ IsSome(turntable'[d].sound) = IsSome(turntable[d].sound)
              /\ IsSome(turntable[d].sound) =>
                    /\ [Unwrap(turntable'[d].sound) EXCEPT
                           !.rate = Unwrap(turntable[d].sound).rate]
                          = Unwrap(turntable[d].sound)
                    /\ Unwrap(turntable'[d].sound).rate = turntable'[d].pitch_true
        /\ UNCHANGED <<turntable_focus, mixer, tracks, playing>>]_vars

\* C31 witness: deck One has a source loaded and plays, deck Two is stopped,
\* and a frame of 20 ms has just taken deck One's pitch_true and the rate of
\* its playback from 0 and 1 to 0.8, with deck Two's pitch_true still 0.
C31_Witness ==
    /\ last.ev = "process"
    /\ last.arg = R(20, 1000)
    /\ turntable[1].is_playing
    /\ turntable[1].pitch_true = R(8, 10)
    /\ IsSome(turntable[1].sound)
    /\ Unwrap(turntable[1].sound).rate = R(8, 10)
    /\ ~turntable[2].is_playing
    /\ turntable[2].pitch_true = R0

(***************************************************************************)
(* Claims about the file navigator                                         *)
(***************************************************************************)
\* C32: in every reachable state of the navigator that has a cursor, the
\* cursor is below the number of entries, so selected() indexes an entry
\* and does not panic; after any go_up, go_down, select and go_back, a
\* select on a directory without listable entries included.
C32_CursorIndexesAnEntry ==
    IsSome(Cursor(file_navigator)) =>
        /\ Unwrap(Cursor(file_navigator)) < Len(file_navigator.entries)
        /\ Selected(file_navigator).res = "Some"

\* C33: go_back() at the root directory returns PastRootAttempt and leaves
\* the directory stack, the cursor stack and the entries as they were (and
\* FileNavigatorBack, which logs the error, leaves the decks and the bus
\* graph alone); in every reachable state the directory stack is not empty
\* and the cursor stack is not longer than the directory stack.
C33_GoBackStopsAtRoot ==
    /\ [](/\ Len(file_navigator.cwd_stack) >= 1
          /\ Len(file_navigator.cursor_stack) <= Len(file_navigator.cwd_stack))
    /\ [][(last'.ev = "FileNavigatorBack" /\ Len(file_navigator.cwd_stack) = 1) =>
            /\ last'.res = "PastRootAttempt"
            /\ GoBack(file_navigator).res = "PastRootAttempt"
            /\ UNCHANGED <<file_navigator, turntable, mixer, tracks,
                           turntable_focus, crashed>>]_vars

\* C33 witness: at the root /music with the cursor on the third entry,
\* FileNavigatorBack has just been refused with PastRootAttempt.
C33_Witness ==
    /\ last.ev = "FileNavigatorBack"
    /\ last.res = "PastRootAttempt"
    /\ file_navigator.cwd_stack = <<RootDir>>
    /\ file_navigator.cursor_stack = <<2>>
    /\ Len(file_navigator.entries) = 4

\* C34: whenever FileNavigatorSelect enters a directory, go_back() on the
\* navigator it leaves returns Ok and gives back the navigator from before
\* the select: the same directory, the same entries and the cursor on the
\* directory that was entered (the directory tree being fixed); and whenever
\* FileNavigatorSelect resolves to a file, the path it hands on is that of
\* the entry under the cursor and the navigator is unchanged.
C34_SelectThenGoBackRoundTrip ==
    [][last'.ev = "FileNavigatorSelect" =>
        LET sel == Select(file_navigator)
        IN  /\ sel.kind = "Directory" =>
                  /\ file_navigator' = sel.nav
                  /\ Cwd(file_navigator') = last'.path
                  /\ GoBack(file_navigator').res = "Ok"
                  /\ GoBack(file_navigator').nav = file_navigator
                  /\ Selected(GoBack(file_navigator').nav).entry
                        = file_navigator'.cwd_stack[Len(file_navigator'.cwd_stack)]
            /\ sel.kind = "File" =>
                  /\ file_navigator' = file_navigator
                  /\ last'.path = Cwd(file_navigator) \o "/"
                                      \o Selected(file_navigator).entry]_vars

\* C34 witness: FileNavigatorSelect has just entered /music/sets from the
\* root, where the cursor was on the fourth entry, sets: the navigator lists
\* b.mp3 with the cursor on it, and go_back() from here leads back to the
\* root with the cursor on sets.
C34_Witness ==
    /\ last.ev = "FileNavigatorSelect"
    /\ last.res = "Directory"
    /\ file_navigator.cwd_stack = <<RootDir, "sets">>
    /\ file_navigator.cursor_stack = <<3, 0>>
    /\ file_navigator.entries = <<"b.mp3">>
    /\ GoBack(file_navigator).nav.cursor_stack = <<3>>

\* go_down() called k times in a row
RECURSIVE GoDownTimes(_, _)
GoDownTimes(nav, k) ==
    IF k = 0 THEN nav ELSE GoDownTimes(GoDown(nav), k - 1)

\* the navigator nav with its cursor, the top of the cursor stack, at c
WithCursorAt(nav, c) ==
    [nav EXCEPT !.cursor_stack[Len(nav.cursor_stack)] = c]

\* C35: with n > 0 entries and a cursor at c, FileNavigatorDown leaves the
\* cursor at (c + 1) mod n and FileNavigatorUp at (c - 1) mod n, wrapping at
\* both ends, and changes nothing else in the navigator; go_up after a
\* go_down, go_down after a go_up, and n go_down in a row give back the
\* navigator they started from; without a cursor, or with no entries, both
\* events leave the navigator as it is.
C35_CursorMovesModuloEntries ==
    [][LET nav == file_navigator
           n   == Len(file_navigator.entries)
           moves == IsSome(Cursor(file_navigator)) /\ n > 0
       IN  /\ last'.ev = "FileNavigatorDown" =>
                 IF moves
                 THEN /\ file_navigator'
                           = WithCursorAt(nav, (Unwrap(Cursor(nav)) + 1) % n)
                      /\ Unwrap(Cursor(file_navigator')) \in 0..(n - 1)
                      /\ GoUp(file_navigator') = nav
                      /\ GoDownTimes(nav, n) = nav
                 ELSE file_navigator' = nav
           /\ last'.ev = "FileNavigatorUp" =>
                 IF moves
                 THEN /\ file_navigator'
                           = WithCursorAt(nav, (Unwrap(Cursor(nav)) + n - 1) % n)
                      /\ Unwrap(Cursor(file_navigator')) \in 0..(n - 1)
                      /\ Unwrap(Cursor(nav)) = 0 =>
                            Unwrap(Cursor(file_navigator')) = n - 1
                      /\ GoDown(file_navigator') = nav
                 ELSE file_navigator' = nav]_vars

\* C35 witness: at the root, with four entries and the cursor on the first,
\* FileNavigatorUp has just wrapped the cursor to the last entry.
C35_Witness ==
    /\ last.ev = "FileNavigatorUp"
    /\ file_navigator.cwd_stack = <<RootDir>>
    /\ Len(file_navigator.entries) = 4
    /\ file_navigator.cursor_stack = <<3>>
    /\ GoDown(file_navigator).cursor_stack = <<0>>

(***************************************************************************)
(* Claims about the locks of load                                          *)
(***************************************************************************)
\* C36: a load never holds its deck's track lock and the audio manager's
\* lock together: it waits for the manager holding nothing and holds the
\* manager alone. So a load that waits for a lock is never waited for:
\* whoever holds the manager is a load inside play(), and whoever holds the
\* track a load waits for is the operation of the bus graph, and both can
\* go on; loads on the two decks and operations of the bus graph cannot
\* block each other for good.
C36_LoadHoldsOneLockAtATime ==
    \A d \in Decks :
        /\ ~(locks.track[d] = Some(d) /\ locks.manager = Some(d))
        /\ locks.track[d] = Some(d) <=> locks.pc[d] = "has_track"
        /\ locks.manager = Some(d) <=> locks.pc[d] = "has_manager"
        /\ (locks.pc[d] = "want_manager" /\ IsSome(locks.manager)) =>
              locks.pc[Unwrap(locks.manager)] = "has_manager"
        /\ (locks.pc[d] = "want_track" /\ IsSome(locks.track[d])) =>
              (locks.track[d] = Some(0) /\ locks.bus = Some(d))

\* C36 witness: the load on deck One is inside play() with the manager's
\* lock, the load on deck Two waits for the manager with its track's lock
\* given back, and the bus graph holds the lock of channel Two's track.
C36_Witness ==
    /\ locks.pc[1] = "has_manager"
    /\ locks.manager = Some(1)
    /\ locks.track[1] = None
    /\ locks.pc[2] = "want_manager"
    /\ locks.track[2] = Some(0)
    /\ locks.bus = Some(2)

(***************************************************************************)
(* Claims about start_scratching and end_scratching                        *)
(***************************************************************************)
\* C37: ScratchBegin leaves the focused deck with is_scratching true and
\* ScratchEnd with is_scratching false, whatever it was before, and with
\* every other field (is_playing, pitch_target, pitch_true, force, the
\* source and the playback) as it was; a second start_scratching() or
\* end_scratching() changes nothing more, and on the deck of
\* Turntable::new they give true and false as the two tests assert.
C37_ScratchingSetNotToggled ==
    /\ [](/\ StartScratching(NewTurntable).is_scratching
          /\ ~EndScratching(NewTurntable).is_scratching)
    /\ [][LET f == turntable_focus
          IN  /\ last'.ev = "ScratchBegin" =>
                    /\ turntable'[f] = [turntable[f] EXCEPT !.is_scratching = TRUE]
                    /\ StartScratching(turntable'[f]) = turntable'[f]
              /\ last'.ev = "ScratchEnd" =>
                    /\ turntable'[f] = [turntable[f] EXCEPT !.is_scratching = FALSE]
                    /\ EndScratching(turntable'[f]) = turntable'[f]]_vars

\* C37 witness: deck One plays with a pending force of 42.0 and ScratchBegin
\* has just set it scratching; it still plays and the force is still 42.0.
C37_Witness ==
    /\ last.ev = "ScratchBegin"
    /\ turntable_focus = 1
    /\ turntable[1].is_scratching
    /\ turntable[1].is_playing
    /\ turntable[1].force = RInt(42)

(***************************************************************************)
(* Claims about the MIDI input layer                                       *)
(***************************************************************************)
\* C38: whatever data byte of 0..127 the controller sends, the payload
\* on_midi_event dispatches is within the range its receiver expects: a
\* volume within [0, 1], a pitch within [0.94, 1.06], which set_pitch stores
\* without clamping, and an EQ gain within [-24, +3] dB.
C38_MidiPayloadsInRange ==
    /\ DeckOf(last.ev, "Volume", "Changed") # 0 =>
          RLe(R0, last.arg) /\ RLe(last.arg, R1)
    /\ DeckOf(last.ev, "Pitch", "Changed") # 0 =>
          /\ RLe(R(94, 100), last.arg) /\ RLe(last.arg, R(106, 100))
          /\ SetPitch(NewTurntable, last.arg).pitch_target = last.arg
    /\ (DeckOf(last.ev, "EqLow", "Changed") # 0
          \/ DeckOf(last.ev, "EqHigh", "Changed") # 0) =>
          RLe(RInt(-24), last.arg) /\ RLe(last.arg, RInt(3))

====
